---- MODULE Spec2Model ----
(***************************************************************************)
(* Verification model of pacman-repo-tools:                                *)
(*   - the dependency resolver of src/bin/download-packages.rs             *)
(*   - the version ordering of src/version/{compare,parse,types}.rs        *)
(*                                                                         *)
(* Package and target names are the integers 1..NumNames; the order of the *)
(* integers stands for the Ord of &str that BTreeSet / BTreeMap iterate in.*)
(***************************************************************************)
EXTENDS FiniteSets, Integers, Sequences, TLC

\* ------------------------------------------------------------------------
\* Bounds of the model
\* ------------------------------------------------------------------------
NumNames == 3
MaxDepends == 1
MaxProvides == 1
MaxTargets == 2
\* packages of the index in the behaviours that resolve twice
MaxRepeatPackages == 2

Names == 1..NumNames

\* Option<T>
None == [some |-> FALSE]
Some(v) == [some |-> TRUE, value |-> v]

\* Result<T, E>
Ok(v) == [ok |-> TRUE, value |-> v]
Err(e) == [ok |-> FALSE, error |-> e]

\* No target name (the value of a name variable that holds nothing yet).
NoName == 0

\* ------------------------------------------------------------------------
\* Data model: DatabasePackage, Dependency, Provides
\* ------------------------------------------------------------------------

\* Version values a database may hold (abstract, ordered as integers).
Versions == {1, 2}

Constraint == {"Equal", "Greater", "GreaterEqual", "Less", "LessEqual"}

\* Option<VersionConstraint> of a Dependency.
VersionConstraints ==
    {None} \cup {Some(vc) : vc \in [version : Versions, constraint : Constraint]}

Dependency(name, version) == [name |-> name, version |-> version]

Provides(name, version) == [name |-> name, version |-> version]

DatabasePackage(name, version, depends, provides) ==
    [name |-> name, version |-> version, depends |-> depends, provides |-> provides]

\* ------------------------------------------------------------------------
\* Ordered collections
\* ------------------------------------------------------------------------

\* set.iter().next() of a non-empty BTreeSet: its smallest element.
First(set) == CHOOSE x \in set : \A y \in set : x <= y

\* ------------------------------------------------------------------------
\* Indexing
\* ------------------------------------------------------------------------

\* index_providers: target name -> set of names of the packages providing it.
\* The map has a key exactly for the names that at least one package provides.
\* Mutant of index_providers: a package is not entered as provider of its own name.
mut_index_providers_no_self(pkgs) ==
    LET provided_by(t) ==
            {n \in DOMAIN pkgs : \E p \in pkgs[n].provides : p.name = t}
        keys == {t \in Names : provided_by(t) # {}}
    IN  [t \in keys |-> provided_by(t)]

index_providers(pkgs) ==
    LET provided_by(t) ==
            {n \in DOMAIN pkgs :
                \/ pkgs[n].name = t
                \/ \E p \in pkgs[n].provides : p.name = t}
        keys == {t \in Names : provided_by(t) # {}}
    IN  [t \in keys |-> provided_by(t)]

\* ------------------------------------------------------------------------
\* State
\* ------------------------------------------------------------------------
VARIABLES
    packages,           \* DependencyResolver.packages: name -> DatabasePackage
    providers,          \* DependencyResolver.providers
    selected_packages,  \* DependencyResolver.selected_packages
    provided_targets,   \* DependencyResolver.provided_targets
    targets,            \* the argument of resolve
    queue,              \* the local BTreeSet of resolve
    next_target,        \* position of the first loop of resolve in targets
    pc,                 \* "targets" | "drain" | "ok" | "err"
    failed,             \* the target reported by a failing resolve_target
    target,             \* the target last taken from the queue (NoName: none yet)
    package,            \* the name of the package resolve_target gave for
                        \* `target` (NoName: skipped or failed)
    taken,              \* history: the set of targets taken from the queue
    retaken,            \* history: a target was taken from the queue twice
    run,                \* 1 in the first resolve, 2 in a repeated one
    first               \* the first resolve once a second one has started:
                        \* its packages, targets and outcome

\* the resolver
resolver_vars == <<packages, providers, selected_packages, provided_targets,
                   targets, queue, next_target, pc, failed, target, package,
                   taken, retaken, run, first>>

VARIABLES
    va, vb, vc,                 \* version strings handed to the comparisons
    version_string_ordering,    \* compare_version_string of each pair (None: not called)
    package_version_ordering    \* compare_package_version of each pair (None: not called)

\* the version comparisons
version_vars == <<va, vb, vc, version_string_ordering, package_version_ordering>>

\* The parsers (src/parse.rs, src/version/types.rs): the text given to a
\* parser, and the parser called with its result.
VARIABLES blob, parse_output

parse_vars == <<blob, parse_output>>

\* do_main (src/bin/download-packages.rs): the packages of each repository
\* database, the databases synced so far, the index of the packages by name,
\* the option --no-deps, the position in do_main, the warnings printed and
\* the packages whose download started.
VARIABLES databases, repo_packages, name_index, no_deps, stage, warnings, downloaded

main_vars == <<databases, repo_packages, name_index, no_deps, stage, warnings, downloaded>>

\* The ALPM database deserializer (src/db/deserializer.rs): the Deserializer
\* (the lines its reader still holds, its line counter and its peek buffer),
\* what the visitor of the struct asks for next, and what the last call
\* returned.
VARIABLES deserializer, visitor, de_result

de_vars == <<deserializer, visitor, de_result>>

\* The .SRCINFO parser (src/srcinfo.rs): the blob handed to
\* parse_srcinfo_blob, the PackageIterator it returned, and what the calls of
\* next() returned so far.
VARIABLES srcinfo_blob, package_iterator, yielded

srcinfo_vars == <<srcinfo_blob, package_iterator, yielded>>

\* download_database (src/bin/download-packages.rs): the directory of the
\* database on disk, the archive the server holds, the position of the run
\* of download_database, its Download, the runs started so far, and whether
\* a discarded result of remove_file was an error.
VARIABLES db_directory, db_server, db_pc, db_download, db_runs, db_ignored

sync_vars == <<db_directory, db_server, db_pc, db_download, db_runs, db_ignored>>

\* the readers of files
file_vars == <<de_vars, srcinfo_vars, sync_vars>>

vars == <<resolver_vars, version_vars, parse_vars, main_vars, file_vars>>

\* No database file is being deserialized.
DeserializerIdle ==
    /\ deserializer = [reader |-> <<>>, line |-> 0, peek_buffer |-> [some |-> FALSE]]
    /\ visitor = "idle"
    /\ de_result = [some |-> FALSE]

\* No .SRCINFO blob is being parsed.
SrcinfoIdle ==
    /\ srcinfo_blob = <<>>
    /\ package_iterator = [some |-> FALSE]
    /\ yielded = <<>>

\* A database directory that does not exist. Of a directory that exists:
\* the archive its content was extracted from (0: none), whether that
\* content is complete, and the contents of the files `etag` and
\* `last-modified`, None where the file does not exist.
NoDirectory ==
    [exists |-> FALSE, archive |-> 0, complete |-> FALSE,
     etag |-> [some |-> FALSE], last_modified |-> [some |-> FALSE]]

\* No database is being downloaded.
SyncIdle ==
    /\ db_directory = NoDirectory
    /\ db_server = 0
    /\ db_pc = "idle"
    /\ db_download = [some |-> FALSE]
    /\ db_runs = 0
    /\ db_ignored = FALSE

\* No file is being read.
FilesIdle == DeserializerIdle /\ SrcinfoIdle /\ SyncIdle

\* ------------------------------------------------------------------------
\* DependencyResolver
\* ------------------------------------------------------------------------

\* Mutant of add_package: the names the package provides are not recorded.
mut_add_package_forgets_provided(selected, provided, pkg) ==
    [selected_packages |-> selected \cup {pkg.name},
     provided_targets |-> provided]

\* Mutant of add_package: a package whose name is already provided is skipped.
mut_add_package_skips_provided(selected, provided, pkg) ==
    IF pkg.name \in provided
    THEN [selected_packages |-> selected, provided_targets |-> provided]
    ELSE [selected_packages |-> selected \cup {pkg.name},
          provided_targets |->
            provided \cup {pkg.name} \cup {p.name : p \in pkg.provides}]

\* add_package: selected_packages and provided_targets after adding `pkg`.
add_package(selected, provided, pkg) ==
    [selected_packages |-> selected \cup {pkg.name},
     provided_targets |->
        provided \cup {pkg.name} \cup {p.name : p \in pkg.provides}]

\* Mutant of depends_names: the depends entries are not followed.
mut_depends_names_none(pkg) == {}

\* `for depend in &pkg.depends`: the depend.name values visited.
depends_names(pkg) == {d.name : d \in pkg.depends}

\* self.packages.get(target) of the first loop of resolve yields a package.
is_listed_package(pkgs, t) == t \in DOMAIN pkgs

\* self.provided_targets.contains(target)
is_provided(provided, t) == t \in provided

\* Mutant of resolve_target: a target without provider falls through to the
\* first package of the index (a lookup that forgets the `?`).
mut_resolve_target_fallback(pkgs, provs, t) ==
    IF t \in DOMAIN pkgs
    THEN Ok(pkgs[t])
    ELSE IF t \in DOMAIN provs /\ provs[t] # {}
         THEN Ok(pkgs[First(provs[t])])
         ELSE IF DOMAIN pkgs # {}
              THEN Ok(pkgs[First(DOMAIN pkgs)])
              ELSE Err("no provider found for target")

\* Mutant of resolve_target: the last provider is chosen (next_back for next).
mut_resolve_target_last(pkgs, provs, t) ==
    IF t \in DOMAIN pkgs
    THEN Ok(pkgs[t])
    ELSE IF t \in DOMAIN provs /\ provs[t] # {}
         THEN Ok(pkgs[CHOOSE x \in provs[t] : \A y \in provs[t] : y <= x])
         ELSE Err("no provider found for target")

\* Mutant of resolve_target: among the providers the one with the newest
\* package version is chosen.
mut_resolve_target_newest(pkgs, provs, t) ==
    IF t \in DOMAIN pkgs
    THEN Ok(pkgs[t])
    ELSE IF t \in DOMAIN provs /\ provs[t] # {}
         THEN LET newest == {n \in provs[t] :
                                \A m \in provs[t] : pkgs[m].version <= pkgs[n].version}
              IN  Ok(pkgs[First(newest)])
         ELSE Err("no provider found for target")

\* resolve_target: Ok(package), or Err with the message printed.
resolve_target(pkgs, provs, t) ==
    IF t \in DOMAIN pkgs
    THEN Ok(pkgs[t])
    ELSE IF t \in DOMAIN provs /\ provs[t] # {}
         THEN IF First(provs[t]) \in DOMAIN pkgs
              THEN Ok(pkgs[First(provs[t])])
              ELSE Err("no such package")
         ELSE Err("no provider found for target")

\* pop_first: the value taken from a non-empty set.
pop_first(set) == First(set)

\* What resolve has returned: Ok(selected_packages) or Err(()); None before.
\* The target named in the message of a failure is kept in `failed`.
Outcome ==
    IF pc = "ok" THEN Some(Ok(selected_packages))
    ELSE IF pc = "err" THEN Some(Err(<<>>))
    ELSE None

\* ------------------------------------------------------------------------
\* Inputs
\* ------------------------------------------------------------------------

SubsetsUpTo(S, k) == {T \in SUBSET S : Cardinality(T) <= k}

SeqsUpTo(S, k) == UNION {[1..n -> S] : n \in 0..k}

DependsChoices == {{Dependency(n, None) : n \in D} : D \in SubsetsUpTo(Names, MaxDepends)}

ProvidesChoices == {{Provides(n, None) : n \in P} : P \in SubsetsUpTo(Names, MaxProvides)}

\* Every name index over a subset of Names; the key of a package is its name.
NameIndexes ==
    UNION {
        {[n \in S |-> DatabasePackage(n, 1, dep[n], prov[n])] :
            dep \in [S -> DependsChoices], prov \in [S -> ProvidesChoices]}
        : S \in SUBSET Names}

\* ------------------------------------------------------------------------
\* Actions
\* ------------------------------------------------------------------------

\* do_main is not running.
MainIdle ==
    /\ databases = <<>>
    /\ repo_packages = <<>>
    /\ name_index = <<>>
    /\ no_deps = FALSE
    /\ stage = "idle"
    /\ warnings = <<>>
    /\ downloaded = <<>>

\* DependencyResolver::new followed by the entry of resolve.
Init ==
    /\ MainIdle
    /\ FilesIdle
    /\ packages \in NameIndexes
    /\ providers = index_providers(packages)
    /\ selected_packages = {}
    /\ provided_targets = {}
    /\ targets \in SeqsUpTo(Names, MaxTargets)
    /\ queue = {}
    /\ next_target = 1
    /\ pc = "targets"
    /\ failed = NoName
    /\ target = NoName
    /\ package = NoName
    /\ taken = {}
    /\ retaken = FALSE
    /\ run = 1
    /\ first = None
    /\ va = <<>>
    /\ vb = <<>>
    /\ vc = <<>>
    /\ version_string_ordering = None
    /\ package_version_ordering = None
    /\ blob = <<>>
    /\ parse_output = None

\* resolve, first loop, a target that is the name of a package.
AddListedPackage ==
    /\ UNCHANGED <<version_vars, parse_vars, file_vars, main_vars>>
    /\ pc = "targets"
    /\ next_target <= Len(targets)
    /\ is_listed_package(packages, targets[next_target])
    /\ LET pkg == packages[targets[next_target]]
           added == add_package(selected_packages, provided_targets, pkg)
       IN
        /\ selected_packages' = added.selected_packages
        /\ provided_targets' = added.provided_targets
        /\ queue' = queue \cup depends_names(pkg)
    /\ next_target' = next_target + 1
    /\ UNCHANGED <<packages, providers, targets, pc, failed, target, package,
                   taken, retaken, run, first>>

\* resolve, first loop, a target that is no package name.
AddVirtualTarget ==
    /\ UNCHANGED <<version_vars, parse_vars, file_vars, main_vars>>
    /\ pc = "targets"
    /\ next_target <= Len(targets)
    /\ ~is_listed_package(packages, targets[next_target])
    /\ queue' = queue \cup {targets[next_target]}
    /\ next_target' = next_target + 1
    /\ UNCHANGED <<packages, providers, selected_packages, provided_targets,
                   targets, pc, failed, target, package, taken, retaken, run,
                   first>>

\* resolve, end of the first loop.
StartDrain ==
    /\ UNCHANGED <<version_vars, parse_vars, file_vars, main_vars>>
    /\ pc = "targets"
    /\ next_target > Len(targets)
    /\ pc' = "drain"
    /\ UNCHANGED <<packages, providers, selected_packages, provided_targets,
                   targets, queue, next_target, failed, target, package, taken,
                   retaken, run, first>>

\* `while let Some(target) = pop_first(&mut queue)`: the history of a pop.
Pop ==
    /\ target' = pop_first(queue)
    /\ taken' = taken \cup {pop_first(queue)}
    /\ retaken' = (retaken \/ pop_first(queue) \in taken)

\* resolve, drain loop: the target taken is already provided.
DrainSkip ==
    /\ UNCHANGED <<version_vars, parse_vars, file_vars, main_vars>>
    /\ pc = "drain"
    /\ queue # {}
    /\ is_provided(provided_targets, pop_first(queue))
    /\ Pop
    /\ queue' = queue \ {pop_first(queue)}
    /\ package' = NoName
    /\ UNCHANGED <<packages, providers, selected_packages, provided_targets,
                   targets, next_target, pc, failed, run, first>>

\* resolve, drain loop: the target taken is resolved to a package.
DrainSelect ==
    /\ UNCHANGED <<version_vars, parse_vars, file_vars, main_vars>>
    /\ pc = "drain"
    /\ queue # {}
    /\ ~is_provided(provided_targets, pop_first(queue))
    /\ resolve_target(packages, providers, pop_first(queue)).ok
    /\ Pop
    /\ LET pkg == resolve_target(packages, providers, pop_first(queue)).value
           added == add_package(selected_packages, provided_targets, pkg)
       IN
        /\ selected_packages' = added.selected_packages
        /\ provided_targets' = added.provided_targets
        /\ queue' = (queue \ {pop_first(queue)})
                        \cup {d \in depends_names(pkg) :
                                ~is_provided(added.provided_targets, d)}
        /\ package' = pkg.name
    /\ UNCHANGED <<packages, providers, targets, next_target, pc, failed, run, first>>

\* resolve, drain loop: resolve_target fails and resolve returns Err.
DrainFail ==
    /\ UNCHANGED <<version_vars, parse_vars, file_vars, main_vars>>
    /\ pc = "drain"
    /\ queue # {}
    /\ ~is_provided(provided_targets, pop_first(queue))
    /\ ~resolve_target(packages, providers, pop_first(queue)).ok
    /\ Pop
    /\ queue' = queue \ {pop_first(queue)}
    /\ package' = NoName
    /\ failed' = pop_first(queue)
    /\ pc' = "err"
    /\ UNCHANGED <<packages, providers, selected_packages, provided_targets,
                   targets, next_target, run, first>>

\* resolve, the queue is empty: Ok(selected_packages).
ReturnOk ==
    /\ UNCHANGED <<version_vars, parse_vars, file_vars, main_vars>>
    /\ pc = "drain"
    /\ queue = {}
    /\ pc' = "ok"
    /\ UNCHANGED <<packages, providers, selected_packages, provided_targets,
                   targets, queue, next_target, failed, target, package, taken,
                   retaken, run, first>>

Next ==
    \/ AddListedPackage
    \/ AddVirtualTarget
    \/ StartDrain
    \/ DrainSkip
    \/ DrainSelect
    \/ DrainFail
    \/ ReturnOk

Spec == Init /\ [][Next]_vars

\* ------------------------------------------------------------------------
\* Resolving twice
\* ------------------------------------------------------------------------

\* A package record with other version data: the package version, the version
\* constraint of its depends entries, or the version of its provides entries.
VersionVariantsOf(pkg) ==
    { pkg,
      [pkg EXCEPT !.version = 2],
      [pkg EXCEPT !.depends =
            {Dependency(d.name, Some([version |-> 2, constraint |-> "GreaterEqual"]))
                : d \in pkg.depends}],
      [pkg EXCEPT !.provides = {Provides(p.name, Some(2)) : p \in pkg.provides}] }

\* The name indexes that differ from pkgs in version data only.
VersionVariants(pkgs) ==
    {v \in [DOMAIN pkgs -> UNION {VersionVariantsOf(pkgs[n]) : n \in DOMAIN pkgs}] :
        \A n \in DOMAIN pkgs : v[n] \in VersionVariantsOf(pkgs[n])}

\* The elements of a list.
Range(list) == {list[i] : i \in 1..Len(list)}

\* The target lists that request the same set of targets as list: other
\* orders, duplicates.
TargetVariants(list) ==
    {l \in SeqsUpTo(Range(list), MaxTargets + 1) : Range(l) = Range(list)}

\* A caller that has an outcome constructs a new DependencyResolver and
\* calls resolve again: on an index that differs in version data at most,
\* or on the same index with the same targets listed differently.
ResolveAgain ==
    /\ UNCHANGED <<version_vars, parse_vars, file_vars, main_vars>>
    /\ run = 1
    /\ pc \in {"ok", "err"}
    /\ first' = Some([packages |-> packages, targets |-> targets,
                      outcome |-> Outcome, failed |-> failed])
    /\ \/ /\ packages' \in VersionVariants(packages)
          /\ targets' = targets
       \/ /\ packages' = packages
          /\ targets' \in TargetVariants(targets)
    /\ providers' = index_providers(packages')
    /\ selected_packages' = {}
    /\ provided_targets' = {}
    /\ queue' = {}
    /\ next_target' = 1
    /\ pc' = "targets"
    /\ failed' = NoName
    /\ target' = NoName
    /\ package' = NoName
    /\ taken' = {}
    /\ retaken' = FALSE
    /\ run' = 2

InitTwice == Init /\ Cardinality(DOMAIN packages) <= MaxRepeatPackages

NextTwice == Next \/ ResolveAgain

SpecTwice == InitTwice /\ [][NextTwice]_vars

\* resolve is straight-line code of one thread: a step that can be taken is taken.
FairSpec == Spec /\ WF_vars(Next)

\* ------------------------------------------------------------------------
\* Properties of resolve
\* ------------------------------------------------------------------------

\* The names a package of the index satisfies: its own and its provides.
NamesProvidedBy(n) == {n} \cup {p.name : p \in packages[n].provides}

\* The packages of the index that satisfy target t.
ProvidersOf(t) == {n \in DOMAIN packages : t \in NamesProvidedBy(n)}

\* Target t is met by the selection.
Satisfied(t) ==
    \E n \in selected_packages : n \in DOMAIN packages /\ t \in NamesProvidedBy(n)

\* C1: when resolve returns Ok(selected), every requested target and every
\* depends name of every selected package is the name of a selected package
\* or is in the provides list of a selected package.
C1_NoUnmetDependency ==
    pc = "ok" =>
        /\ selected_packages \subseteq DOMAIN packages
        /\ \A i \in 1..Len(targets) : Satisfied(targets[i])
        /\ \A n \in selected_packages :
            \A d \in packages[n].depends : Satisfied(d.name)

\* C1 witness: resolve returned Ok with a package selected only because a
\* selected package depends on a name it provides (A -> libb, B provides libb).
C1_Witness ==
    /\ pc = "ok"
    /\ \E a \in selected_packages : \E d \in packages[a].depends :
        /\ d.name \notin DOMAIN packages
        /\ \E b \in selected_packages :
            /\ b # a
            /\ d.name \in NamesProvidedBy(b)
            /\ \A i \in 1..Len(targets) : targets[i] # b /\ targets[i] # d.name

\* C2: resolve terminates, with Ok or Err, for every index and target list.
C2_Terminates == <>(pc \in {"ok", "err"})

\* C2 witness: resolve has returned on a cyclic depends relation (A <-> B).
C2_Witness ==
    /\ pc = "ok"
    /\ \E a, b \in selected_packages :
        /\ a # b
        /\ b \in depends_names(packages[a])
        /\ a \in depends_names(packages[b])
        /\ targets = <<a>>

\* C3: a step that takes from the queue a target that is not provided, is no
\* package name and has no provider makes resolve fail on that target without
\* selecting anything; and resolve never returns Ok when a requested target
\* has neither a package nor a provider.
C3_StepFails ==
    (/\ pc = "drain"
     /\ queue # {}
     /\ target' \notin provided_targets
     /\ target' \notin DOMAIN packages
     /\ ProvidersOf(target') = {})
    => (/\ pc' = "err"
        /\ failed' = target'
        /\ selected_packages' = selected_packages)

C3_UnsatisfiableFails ==
    [][C3_StepFails]_vars
    /\ [](pc = "ok" => \A i \in 1..Len(targets) : ProvidersOf(targets[i]) # {})

\* C3 witness: resolve failed on the only requested name, which no package
\* has or provides.
C3_Witness ==
    /\ pc = "err"
    /\ Len(targets) = 1
    /\ failed = targets[1]
    /\ ProvidersOf(targets[1]) = {}
    /\ DOMAIN packages # {}

\* C4: for a target taken from the queue that is not provided and is no package
\* name, the step selects exactly one package, the provider of the target with
\* the smallest name; no target is taken twice, so no second provider is ever
\* selected for it, and a selected package is never removed.
C4_StepSelectsFirstProvider ==
    (/\ pc = "drain"
     /\ queue # {}
     /\ target' \notin provided_targets
     /\ target' \notin DOMAIN packages
     /\ ProvidersOf(target') # {})
    => LET smallest == CHOOSE n \in ProvidersOf(target') :
                            \A m \in ProvidersOf(target') : n <= m
       IN  /\ selected_packages' = selected_packages \cup {smallest}
           /\ smallest \notin selected_packages
           /\ package' = smallest
           /\ pc' = "drain"

C4_OneSmallestProvider ==
    [][C4_StepSelectsFirstProvider]_vars
    /\ [][selected_packages \subseteq selected_packages']_vars
    /\ []~retaken

\* C4 witness: a virtual target with two providers was resolved.
C4_Witness ==
    /\ target \notin DOMAIN packages
    /\ package # NoName
    /\ package \in selected_packages
    /\ Cardinality(ProvidersOf(target)) >= 2

\* C5: every requested target that is the name of a package of the index is
\* in the set returned by a successful resolve.
C5_ListedPackagesSelected ==
    pc = "ok" =>
        \A i \in 1..Len(targets) :
            targets[i] \in DOMAIN packages => targets[i] \in selected_packages

\* C5 witness: resolve returned Ok for a listed package whose name an earlier
\* listed package already provides.
C5_Witness ==
    /\ pc = "ok"
    /\ Len(targets) = 2
    /\ targets[1] # targets[2]
    /\ targets[1] \in DOMAIN packages
    /\ targets[2] \in DOMAIN packages
    /\ targets[2] \in NamesProvidedBy(targets[1])

\* The name index with the version data removed.
Unversioned(pkgs) ==
    [n \in DOMAIN pkgs |->
        DatabasePackage(pkgs[n].name, 1,
                        {Dependency(d.name, None) : d \in pkgs[n].depends},
                        {Provides(q.name, None) : q \in pkgs[n].provides})]

\* The second resolve has returned.
SecondDone == run = 2 /\ pc \in {"ok", "err"}

\* C6: two resolves whose inputs differ only in version data (package
\* versions, versions of provides entries, version constraints of depends
\* entries) have the same outcome: the same selected set, or a failure on the
\* same target.
C6_VersionsNotEnforced ==
    (/\ SecondDone
     /\ targets = first.value.targets
     /\ Unversioned(packages) = Unversioned(first.value.packages))
    => (/\ Outcome = first.value.outcome
        /\ failed = first.value.failed)

\* C6 witness: the second resolve returned Ok on an index with other version
\* data, having selected a package of version 1 for a depends entry that
\* asks for a version >= 2.
C6_Witness ==
    /\ SecondDone
    /\ pc = "ok"
    /\ packages # first.value.packages
    /\ \E a, b \in selected_packages : \E d \in packages[a].depends :
        /\ a # b
        /\ d.name \in NamesProvidedBy(b)
        /\ d.version = Some([version |-> 2, constraint |-> "GreaterEqual"])
        /\ packages[b].version = 1
        /\ \A q \in packages[b].provides : q.version = None

\* C7: resolving the same set of targets again on the same index (the same
\* list, another order, duplicates) returns the same result.
C7_PureInTargetSet ==
    (/\ SecondDone
     /\ packages = first.value.packages
     /\ Range(targets) = Range(first.value.targets))
    => Outcome = first.value.outcome

\* C7 witness: the second resolve returned Ok for the targets of the first
\* in the opposite order, and another one for a list with a duplicate.
C7_Witness ==
    /\ SecondDone
    /\ pc = "ok"
    /\ packages = first.value.packages
    /\ Len(first.value.targets) = 2
    /\ first.value.targets[1] # first.value.targets[2]
    /\ \/ targets = <<first.value.targets[2], first.value.targets[1]>>
       \/ Len(targets) = 3
    /\ selected_packages # {}
    /\ selected_packages # Range(targets)

\* ========================================================================
\* Version ordering (src/version/compare.rs, src/version/parse.rs)
\*
\* A string is a sequence of characters; a character is written as a string
\* of length one ("U+00B2" is the one character SUPERSCRIPT TWO).
\* ========================================================================

\* i32::MAX
I32Max == 2147483647

\* Bounds of the inputs: tokens per version string (va and vb; vc), and the
\* length of the long digit run.
MaxVersionTokens == 2
MaxShortVersionTokens == 1
LongRunLen == 10

\* char::is_digit(10)
Digits == <<"0", "1", "2", "3", "4", "5", "6", "7", "8", "9">>

is_digit(ch) == \E i \in 1..Len(Digits) : Digits[i] = ch

\* the value of a decimal digit
DigitValue(ch) == (CHOOSE i \in 1..Len(Digits) : Digits[i] = ch) - 1

\* char::is_alphabetic, with the order of the letters
Letters == <<"a", "b">>

is_alphabetic(ch) == \E i \in 1..Len(Letters) : Letters[i] = ch

LetterCode(ch) == CHOOSE i \in 1..Len(Letters) : Letters[i] = ch

\* Characters that are numeric for char::is_alphanumeric, but neither
\* alphabetic nor a digit of base 10.
OtherNumerics == {"U+00B2"}

\* char::is_alphanumeric
is_alphanumeric(ch) == is_alphabetic(ch) \/ is_digit(ch) \/ ch \in OtherNumerics

is_separator(ch) == ~is_alphanumeric(ch)

\* The characters of the inputs.
Chars == {Digits[i] : i \in 1..Len(Digits)} \cup {Letters[i] : i \in 1..Len(Letters)}
            \cup OtherNumerics \cup {".", "-", ":", "+"}

\* The closures given to consume_front_while, as functions of the character.
digit_pattern == [x \in Chars |-> is_digit(x)]

alphabetic_pattern == [x \in Chars |-> is_alphabetic(x)]

alphanumeric_pattern == [x \in Chars |-> is_alphanumeric(x)]

separator_pattern == [x \in Chars |-> is_separator(x)]

\* std::cmp::Ordering
Orderings == {"Less", "Equal", "Greater"}

\* Ordering::reverse; a call that panics or never returns has nothing to reverse.
reverse(o) ==
    CASE o = "Less" -> "Greater"
      [] o = "Greater" -> "Less"
      [] OTHER -> o

\* Ord::cmp of two integers
cmp_int(x, y) == IF x < y THEN "Less" ELSE IF x > y THEN "Greater" ELSE "Equal"

\* Ord::cmp of two bool (false < true)
cmp_bool(x, y) == cmp_int(IF x THEN 1 ELSE 0, IF y THEN 1 ELSE 0)

\* Ord::cmp of two str made of letters: lexicographic, a proper prefix is less.
RECURSIVE cmp_str(_, _)
cmp_str(x, y) ==
    IF x = <<>> /\ y = <<>> THEN "Equal"
    ELSE IF x = <<>> THEN "Less"
    ELSE IF y = <<>> THEN "Greater"
    ELSE IF LetterCode(Head(x)) # LetterCode(Head(y))
         THEN cmp_int(LetterCode(Head(x)), LetterCode(Head(y)))
         ELSE cmp_str(Tail(x), Tail(y))

\* The length of the longest prefix of str whose characters all match pattern.
PrefixLen(str, pattern) ==
    LET stops == {i \in 1..Len(str) : ~pattern[str[i]]}
    IN  IF stops = {} THEN Len(str) ELSE First(stops) - 1

\* ConsumableStr::consume_front_while: the part consumed and the rest.
consume_front_while(str, pattern) ==
    LET i == PrefixLen(str, pattern)
    IN  [left |-> SubSeq(str, 1, i), right |-> SubSeq(str, i + 1, Len(str))]

\* str::parse::<i32> of a non-empty run of digits: Err on overflow.
RECURSIVE parse_digits(_, _)
parse_digits(num, acc) ==
    IF num = <<>> THEN Ok(acc)
    ELSE IF acc > (I32Max - DigitValue(Head(num))) \div 10
         THEN Err("number too large to fit in target type")
         ELSE parse_digits(Tail(num), acc * 10 + DigitValue(Head(num)))

parse_i32(num) == parse_digits(num, 0)

\* Mutant of b_num_value: an absent numeric part counts as 0.
mut_b_num_value_zero(num) == IF num = <<>> THEN Ok(0) ELSE parse_i32(num)

\* compare.rs line 25: the numeric part of a; Err stands for the panic of unwrap.
a_num_value(num) == IF num = <<>> THEN Ok(-1) ELSE parse_i32(num)

\* compare.rs line 26: the numeric part of b.
b_num_value(num) == IF num = <<>> THEN Ok(-1) ELSE parse_i32(num)

\* Mutant of alpha_ordering: an absent alphabetical part equals any other.
mut_alpha_ordering_absent_equal(a_alpha, b_alpha) ==
    IF a_alpha = <<>> \/ b_alpha = <<>> THEN "Equal" ELSE cmp_str(a_alpha, b_alpha)

\* compare.rs line 34: (a_alpha.is_empty(), a_alpha).cmp(&(b_alpha.is_empty(), b_alpha))
alpha_ordering(a_alpha, b_alpha) ==
    IF cmp_bool(a_alpha = <<>>, b_alpha = <<>>) # "Equal"
    THEN cmp_bool(a_alpha = <<>>, b_alpha = <<>>)
    ELSE cmp_str(a_alpha, b_alpha)

\* compare.rs lines 18-36, the loop over the numeric and alphabetical parts of
\* one alphanumeric component: an Ordering other than Equal when the loop
\* returns from the function, "Equal" when it ends, "Panic" when an unwrap
\* panics, "Hang" when a pass consumes nothing of a non-empty input (the next
\* pass then starts from the same state, for ever).
RECURSIVE compare_alnum(_, _)
compare_alnum(a_alnum, b_alnum) ==
    IF a_alnum = <<>> /\ b_alnum = <<>> THEN "Equal"
    ELSE
        LET a_num == consume_front_while(a_alnum, digit_pattern)
            b_num == consume_front_while(b_alnum, digit_pattern)
            a_alpha == consume_front_while(a_num.right, alphabetic_pattern)
            b_alpha == consume_front_while(b_num.right, alphabetic_pattern)
            a_n == a_num_value(a_num.left)
            b_n == b_num_value(b_num.left)
            num_ordering == cmp_int(a_n.value, b_n.value)
            alpha == alpha_ordering(a_alpha.left, b_alpha.left)
        IN  IF ~a_n.ok \/ ~b_n.ok THEN "Panic"
            ELSE IF num_ordering # "Equal" THEN num_ordering
            ELSE IF alpha # "Equal" THEN alpha
            ELSE IF a_alpha.right = a_alnum /\ b_alpha.right = b_alnum
                 THEN "Hang"
            ELSE compare_alnum(a_alpha.right, b_alpha.right)

\* compare.rs lines 38-43: only one side has a separator.
separator_ordering(a_sep, b_sep) == cmp_bool(a_sep # <<>>, b_sep # <<>>)

\* compare_version_string: an Ordering, "Panic" or "Hang".
RECURSIVE compare_version_string(_, _)
compare_version_string(a, b) ==
    IF a = <<>> /\ b = <<>> THEN "Equal"
    ELSE
        LET a_alnum == consume_front_while(a, alphanumeric_pattern)
            b_alnum == consume_front_while(b, alphanumeric_pattern)
            inner == compare_alnum(a_alnum.left, b_alnum.left)
            a_sep == consume_front_while(a_alnum.right, separator_pattern)
            b_sep == consume_front_while(b_alnum.right, separator_pattern)
            separator == separator_ordering(a_sep.left, b_sep.left)
        IN  IF inner # "Equal" THEN inner
            ELSE IF separator # "Equal" THEN separator
            ELSE compare_version_string(a_sep.right, b_sep.right)

\* The last position of ch in str, 0 when it has none (str::rfind).
rfind(str, ch) ==
    IF \E i \in 1..Len(str) : str[i] = ch
    THEN CHOOSE i \in 1..Len(str) : str[i] = ch /\ \A j \in (i + 1)..Len(str) : str[j] # ch
    ELSE 0

\* consume_epoch: None, or Some(epoch) with the rest of the version;
\* Err stands for the panic of unwrap.
consume_epoch(v) ==
    LET epoch == consume_front_while(v, digit_pattern)
        parsed == parse_i32(epoch.left)
    IN  IF epoch.right # <<>> /\ Head(epoch.right) = ":"
        THEN IF epoch.left = <<>>
             THEN Ok([epoch |-> Some(0), rest |-> Tail(epoch.right)])
             ELSE IF parsed.ok
                  THEN Ok([epoch |-> Some(parsed.value), rest |-> Tail(epoch.right)])
                  ELSE Err("Panic")
        ELSE Ok([epoch |-> None, rest |-> v])

\* consume_pkgrel: the text after the last '-' and the rest, or None.
consume_pkgrel(v) ==
    LET i == rfind(v, "-")
    IN  IF i = 0
        THEN [pkgrel |-> None, rest |-> v]
        ELSE [pkgrel |-> Some(SubSeq(v, i + 1, Len(v))), rest |-> SubSeq(v, 1, i - 1)]

\* split_parts: Ok(VersionParts), or Err for the panic in consume_epoch.
split_parts(version) ==
    LET e == consume_epoch(version)
    IN  IF ~e.ok THEN e
        ELSE LET epoch == IF e.value.epoch.some THEN e.value.epoch.value ELSE 0
                 r == consume_pkgrel(e.value.rest)
             IN  Ok([epoch |-> epoch, pkgver |-> r.rest, pkgrel |-> r.pkgrel])

\* The derived Ord of VersionParts: epoch, then pkgver, then pkgrel with
\* None less than Some.
cmp_version_parts(x, y) ==
    LET pkgver == compare_version_string(x.pkgver, y.pkgver)
    IN  IF cmp_int(x.epoch, y.epoch) # "Equal"
        THEN cmp_int(x.epoch, y.epoch)
        ELSE IF pkgver # "Equal" THEN pkgver
        ELSE IF ~x.pkgrel.some \/ ~y.pkgrel.some
             THEN cmp_bool(x.pkgrel.some, y.pkgrel.some)
        ELSE compare_version_string(x.pkgrel.value, y.pkgrel.value)

\* compare_package_version: an Ordering, "Panic" or "Hang".
compare_package_version(a, b) ==
    LET a_parts == split_parts(a)
        b_parts == split_parts(b)
    IN  IF ~a_parts.ok \/ ~b_parts.ok
        THEN "Panic"
        ELSE cmp_version_parts(a_parts.value, b_parts.value)

\* ------------------------------------------------------------------------
\* Inputs of the comparisons
\* ------------------------------------------------------------------------

\* A run of digits too long for an i32.
LongDigitRun == [i \in 1..LongRunLen |-> "9"]

VersionTokens ==
    {<<"0">>, <<"1">>, <<"a">>, <<"b">>, <<".">>, <<"-">>, <<":">>, <<"U+00B2">>,
     LongDigitRun}

\* The strings made of at most k tokens.
RECURSIVE VersionStrings(_)
VersionStrings(k) ==
    IF k = 0 THEN {<<>>}
    ELSE VersionStrings(k - 1)
            \cup {str \o t : str \in VersionStrings(k - 1), t \in VersionTokens}

\* The ordered pairs of the three inputs.
Pairs == {"ab", "ba", "bc", "cb", "ac", "ca"}

Left(p) == CASE p \in {"ab", "ac"} -> va [] p \in {"ba", "bc"} -> vb [] OTHER -> vc

Right(p) == CASE p \in {"ba", "ca"} -> va [] p \in {"ab", "cb"} -> vb [] OTHER -> vc

\* ------------------------------------------------------------------------
\* Actions of the comparisons
\* ------------------------------------------------------------------------

\* The resolver is not running.
ResolverIdle ==
    /\ packages = <<>>
    /\ providers = <<>>
    /\ selected_packages = {}
    /\ provided_targets = {}
    /\ targets = <<>>
    /\ queue = {}
    /\ next_target = 1
    /\ pc = "idle"
    /\ failed = NoName
    /\ target = NoName
    /\ package = NoName
    /\ taken = {}
    /\ retaken = FALSE
    /\ run = 1
    /\ first = None

InitVersion ==
    /\ ResolverIdle
    /\ MainIdle
    /\ FilesIdle
    /\ va \in VersionStrings(MaxVersionTokens)
    /\ vb \in VersionStrings(MaxVersionTokens)
    /\ vc \in VersionStrings(MaxShortVersionTokens)
    /\ version_string_ordering = None
    /\ package_version_ordering = None
    /\ blob = <<>>
    /\ parse_output = None

\* compare_version_string is called on each pair of the inputs.
CompareVersionString ==
    /\ pc = "idle"
    /\ version_string_ordering = None
    /\ version_string_ordering' =
            Some([p \in Pairs |-> compare_version_string(Left(p), Right(p))])
    /\ UNCHANGED <<resolver_vars, parse_vars, file_vars, main_vars, va, vb, vc, package_version_ordering>>

\* compare_package_version is called on each pair of the inputs.
ComparePackageVersion ==
    /\ pc = "idle"
    /\ package_version_ordering = None
    /\ package_version_ordering' =
            Some([p \in Pairs |-> compare_package_version(Left(p), Right(p))])
    /\ UNCHANGED <<resolver_vars, parse_vars, file_vars, main_vars, va, vb, vc, version_string_ordering>>

NextVersion ==
    \/ CompareVersionString
    \/ ComparePackageVersion

SpecVersion == InitVersion /\ [][NextVersion]_vars

\* ------------------------------------------------------------------------
\* Properties of the version ordering
\* ------------------------------------------------------------------------

\* The pair with the arguments exchanged.
Swap(p) ==
    CASE p = "ab" -> "ba" [] p = "ba" -> "ab"
      [] p = "bc" -> "cb" [] p = "cb" -> "bc"
      [] p = "ac" -> "ca" [] p = "ca" -> "ac"

\* Whenever a call returns, the call with the arguments exchanged returns
\* the reverse.
Antisymmetric(r) ==
    \A p \in Pairs :
        r[p] \in Orderings => r[Swap(p)] \in Orderings /\ r[p] = reverse(r[Swap(p)])

\* C8: for all strings a and b, compare_version_string(a, b) is the reverse
\* of compare_version_string(b, a), and compare_package_version(a, b) is the
\* reverse of compare_package_version(b, a). A call that returns no Ordering
\* is matched by the exchanged call returning none either.
C8_Antisymmetric ==
    /\ version_string_ordering.some => Antisymmetric(version_string_ordering.value)
    /\ package_version_ordering.some => Antisymmetric(package_version_ordering.value)

\* Both functions have compared two different strings in both directions,
\* and they order them differently ("1:" and "2", for one).
C8_Witness ==
    /\ version_string_ordering.some
    /\ package_version_ordering.some
    /\ version_string_ordering.value["ab"] = "Less"
    /\ version_string_ordering.value["ba"] = "Greater"
    /\ package_version_ordering.value["ab"] = "Greater"
    /\ package_version_ordering.value["ba"] = "Less"

\* The chains x, y, z over the three inputs: (x, y), (y, z) and (x, z).
Chains ==
    {<<"ab", "bc", "ac">>, <<"ac", "cb", "ab">>, <<"ba", "ac", "bc">>,
     <<"bc", "ca", "ba">>, <<"ca", "ab", "cb">>, <<"cb", "ba", "ca">>}

NotGreater == {"Less", "Equal"}

\* Along every chain whose two links return an Ordering that is not Greater,
\* the comparison of the ends returns one that is not Greater, and Less when
\* a link is Less.
Transitive(r) ==
    \A t \in Chains :
        r[t[1]] \in NotGreater /\ r[t[2]] \in NotGreater
            => /\ r[t[3]] \in NotGreater
               /\ (r[t[1]] = "Less" \/ r[t[2]] = "Less") => r[t[3]] = "Less"

\* C9: the version ordering is transitive: for all strings a, b, c, if
\* compare(a, b) is not Greater and compare(b, c) is not Greater then
\* compare(a, c) is not Greater (and Less if either is Less), for both
\* compare_version_string and compare_package_version.
C9_Transitive ==
    /\ version_string_ordering.some => Transitive(version_string_ordering.value)
    /\ package_version_ordering.some => Transitive(package_version_ordering.value)

\* Both functions have compared a chain of three different strings, one link
\* Less and one Equal ("0", "01" and "1" make such a chain).
C9_Witness ==
    /\ version_string_ordering.some
    /\ package_version_ordering.some
    /\ va # vb /\ vb # vc
    /\ version_string_ordering.value["ab"] = "Less"
    /\ version_string_ordering.value["bc"] = "Equal"
    /\ version_string_ordering.value["ac"] = "Less"
    /\ package_version_ordering.value["ab"] = "Less"
    /\ package_version_ordering.value["bc"] = "Equal"
    /\ package_version_ordering.value["ac"] = "Less"

\* C10: the bare comparison functions never fail: for every pair of input
\* strings, with digit runs and epoch prefixes of any length,
\* compare_version_string and compare_package_version return an Ordering
\* rather than raising an error or panicking.
C10_NeverFails ==
    /\ version_string_ordering.some
        => \A p \in Pairs : version_string_ordering.value[p] # "Panic"
    /\ package_version_ordering.some
        => \A p \in Pairs : package_version_ordering.value[p] # "Panic"

\* The digits of a number without its leading zeros.
RECURSIVE StripZeros(_)
StripZeros(num) ==
    IF num # <<>> /\ Head(num) = "0" THEN StripZeros(Tail(num)) ELSE num

\* Two runs of digits of the same length, compared digit by digit.
RECURSIVE CmpSameLength(_, _)
CmpSameLength(x, y) ==
    IF x = <<>> THEN "Equal"
    ELSE IF Head(x) # Head(y) THEN cmp_int(DigitValue(Head(x)), DigitValue(Head(y)))
    ELSE CmpSameLength(Tail(x), Tail(y))

\* Two runs of digits compared as numbers of any size.
CmpNumbers(x, y) ==
    LET sx == StripZeros(x)
        sy == StripZeros(y)
    IN  IF Len(sx) # Len(sy) THEN cmp_int(Len(sx), Len(sy)) ELSE CmpSameLength(sx, sy)

\* The digits before a leading `<digits>:` prefix; none (the number 0) when
\* the string has no such prefix.
EpochDigits(str) ==
    LET i == First({j \in 1..(Len(str) + 1) : j > Len(str) \/ ~is_digit(str[j])})
    IN  IF i <= Len(str) /\ str[i] = ":" THEN SubSeq(str, 1, i - 1) ELSE <<>>

\* The string after its `<digits>:` prefix; the whole string when it has none.
AfterEpoch(str) ==
    LET i == First({j \in 1..(Len(str) + 1) : j > Len(str) \/ ~is_digit(str[j])})
    IN  IF i <= Len(str) /\ str[i] = ":" THEN SubSeq(str, i + 1, Len(str)) ELSE str

\* The positions of '-' after the epoch.
Dashes(str) == {i \in 1..Len(AfterEpoch(str)) : AfterEpoch(str)[i] = "-"}

HasPkgrel(str) == Dashes(str) # {}

LastDash(str) == CHOOSE i \in Dashes(str) : \A j \in Dashes(str) : j <= i

\* The text before the last '-' (all the text when there is none).
PkgverOf(str) ==
    IF HasPkgrel(str) THEN SubSeq(AfterEpoch(str), 1, LastDash(str) - 1) ELSE AfterEpoch(str)

\* The text after the last '-'.
PkgrelOf(str) == SubSeq(AfterEpoch(str), LastDash(str) + 1, Len(AfterEpoch(str)))

\* The order of the triples (epoch, pkgver, pkgrel?): epoch numerically, then
\* pkgver by compare_version_string, then pkgrel, absent older than present.
TripleOrdering(a, b) ==
    IF CmpNumbers(EpochDigits(a), EpochDigits(b)) # "Equal"
    THEN CmpNumbers(EpochDigits(a), EpochDigits(b))
    ELSE IF compare_version_string(PkgverOf(a), PkgverOf(b)) # "Equal"
         THEN compare_version_string(PkgverOf(a), PkgverOf(b))
    ELSE IF ~HasPkgrel(a) \/ ~HasPkgrel(b)
         THEN cmp_bool(HasPkgrel(a), HasPkgrel(b))
    ELSE compare_version_string(PkgrelOf(a), PkgrelOf(b))

\* What C11 says of one call compare_package_version(a, b) that gave r.
OrdersTriples(a, b, r) ==
    /\ r = TripleOrdering(a, b)
    /\ CmpNumbers(EpochDigits(a), EpochDigits(b)) = "Greater" => r = "Greater"
    /\ (EpochDigits(a) = EpochDigits(b) /\ PkgverOf(a) = PkgverOf(b)
            /\ ~HasPkgrel(a) /\ HasPkgrel(b)) => r = "Less"

\* C11: compare_package_version(a, b) splits each string into (epoch, pkgver,
\* pkgrel?) and orders the triples lexicographically: epoch numerically, then
\* pkgver by compare_version_string, then pkgrel with absent older than any
\* present one; a higher epoch wins whatever pkgver and pkgrel are, and a
\* version without pkgrel is older than the same pkgver with one.
C11_OrdersTriples ==
    package_version_ordering.some
        => \A p \in Pairs :
                OrdersTriples(Left(p), Right(p), package_version_ordering.value[p])

\* The same, of the calls that return.
ReturnedOrdersTriples ==
    package_version_ordering.some
        => \A p \in Pairs :
                package_version_ordering.value[p] \in Orderings
                    => OrdersTriples(Left(p), Right(p), package_version_ordering.value[p])

\* ------------------------------------------------------------------------
\* The comparison piece by piece
\* ------------------------------------------------------------------------

\* Bound of the inputs: characters per string.
MaxPieceChars == 4

PieceChars == {"0", "1", "a", "."}

\* The strings of at most k of these characters.
RECURSIVE PieceStrings(_)
PieceStrings(k) ==
    IF k = 0 THEN {<<>>}
    ELSE PieceStrings(k - 1)
            \cup {Append(str, ch) : str \in PieceStrings(k - 1), ch \in PieceChars}

InitPieces ==
    /\ ResolverIdle
    /\ MainIdle
    /\ FilesIdle
    /\ va \in PieceStrings(MaxPieceChars) \cup {LongDigitRun}
    /\ vb \in PieceStrings(MaxPieceChars) \cup {LongDigitRun}
    /\ vc = <<>>
    /\ version_string_ordering = None
    /\ package_version_ordering = None
    /\ blob = <<>>
    /\ parse_output = None

NextPieces == CompareVersionString

SpecPieces == InitPieces /\ [][NextPieces]_vars

\* The alphanumeric runs of a string: every run of separators, however long,
\* ends one run and starts the next.
RECURSIVE AlnumRuns(_)
AlnumRuns(str) ==
    LET stops == {i \in 1..Len(str) : is_separator(str[i])}
        i == IF stops = {} THEN Len(str) + 1 ELSE First(stops)
        others == {j \in i..Len(str) : ~is_separator(str[j])}
        k == IF others = {} THEN Len(str) + 1 ELSE First(others)
    IN  IF stops = {} THEN <<str>>
        ELSE <<SubSeq(str, 1, i - 1)>> \o AlnumRuns(SubSeq(str, k, Len(str)))

\* The number of leading characters of str that are digits (letters).
RECURSIVE LeadingDigits(_)
LeadingDigits(str) ==
    IF str # <<>> /\ is_digit(Head(str)) THEN 1 + LeadingDigits(Tail(str)) ELSE 0

RECURSIVE LeadingLetters(_)
LeadingLetters(str) ==
    IF str # <<>> /\ is_alphabetic(Head(str)) THEN 1 + LeadingLetters(Tail(str)) ELSE 0

\* The pieces of a run of digits and letters: each a digit run followed by
\* a letter run, either of which may be absent.
RECURSIVE PiecesOf(_)
PiecesOf(alnum) ==
    IF alnum = <<>> THEN <<>>
    ELSE LET d == LeadingDigits(alnum)
             l == LeadingLetters(SubSeq(alnum, d + 1, Len(alnum)))
         IN  <<[num |-> SubSeq(alnum, 1, d), alpha |-> SubSeq(alnum, d + 1, d + l)]>>
                \o PiecesOf(SubSeq(alnum, d + l + 1, Len(alnum)))

AbsentPiece == [num |-> <<>>, alpha |-> <<>>]

\* A digit run numerically, an absent one as -1; then a letter run lexically,
\* an absent one newer than any present one.
PieceOrdering(x, y) ==
    LET num == IF x.num = <<>> \/ y.num = <<>>
               THEN cmp_bool(x.num # <<>>, y.num # <<>>)
               ELSE CmpNumbers(x.num, y.num)
    IN  IF num # "Equal" THEN num
        ELSE IF x.alpha = <<>> \/ y.alpha = <<>>
             THEN cmp_bool(x.alpha = <<>>, y.alpha = <<>>)
        ELSE cmp_str(x.alpha, y.alpha)

\* Two lists of pieces, piece by piece; the first unequal piece decides.
RECURSIVE PiecesOrdering(_, _)
PiecesOrdering(xs, ys) ==
    IF xs = <<>> /\ ys = <<>> THEN "Equal"
    ELSE LET x == IF xs = <<>> THEN AbsentPiece ELSE Head(xs)
             y == IF ys = <<>> THEN AbsentPiece ELSE Head(ys)
             o == PieceOrdering(x, y)
         IN  IF o # "Equal" THEN o
             ELSE PiecesOrdering(IF xs = <<>> THEN xs ELSE Tail(xs),
                                 IF ys = <<>> THEN ys ELSE Tail(ys))

\* Two lists of alphanumeric runs: run by run, and after equal runs the side
\* that goes on after a separator is newer than the side that ends.
RECURSIVE RunsOrdering(_, _)
RunsOrdering(as, bs) ==
    LET o == PiecesOrdering(PiecesOf(Head(as)), PiecesOf(Head(bs)))
    IN  IF o # "Equal" THEN o
        ELSE IF Len(as) = 1 \/ Len(bs) = 1 THEN cmp_bool(Len(as) > 1, Len(bs) > 1)
        ELSE RunsOrdering(Tail(as), Tail(bs))

\* The reference comparison of two version strings.
ReferenceOrdering(a, b) == RunsOrdering(AlnumRuns(a), AlnumRuns(b))

\* C12: compare_version_string equals the reference comparison for every
\* pair of strings: alphanumeric runs are compared piece by piece, a digit
\* run numerically (an absent digit run counts as -1) and a letter run
\* lexically with an absent letter run newer than any present one; a side
\* that has a separator where the other has none is newer; a run of several
\* separator characters counts as one; the first unequal piece decides.
C12_EqualsReference ==
    version_string_ordering.some
        => \A p \in {"ab", "ba"} :
                version_string_ordering.value[p] = ReferenceOrdering(Left(p), Right(p))

\* The same, of the calls that return.
ReturnedEqualsReference ==
    version_string_ordering.some
        => \A p \in {"ab", "ba"} :
                version_string_ordering.value[p] \in Orderings
                    => version_string_ordering.value[p] = ReferenceOrdering(Left(p), Right(p))

\* ========================================================================
\* Parsers (src/parse.rs)
\* ========================================================================

\* Bound of the inputs: characters per text.
MaxBlobLen == 5

BlobChars == {"f", "1", "=", "<", ">", "-", ":", "."}

\* The texts of at most k of these characters.
RECURSIVE Blobs(_)
Blobs(k) ==
    IF k = 0 THEN {<<>>}
    ELSE Blobs(k - 1) \cup {Append(str, ch) : str \in Blobs(k - 1), ch \in BlobChars}

\* str::find: the first position of a character of chars, 0 when there is none.
find(str, chars) ==
    IF \E i \in 1..Len(str) : str[i] \in chars
    THEN First({i \in 1..Len(str) : str[i] \in chars})
    ELSE 0

\* Mutant of partition: splits around the last occurrence.
mut_partition_last(input, split) ==
    IF rfind(input, split) = 0 THEN None
    ELSE Some(<<SubSeq(input, 1, rfind(input, split) - 1),
                SubSeq(input, rfind(input, split) + 1, Len(input))>>)

\* partition: the texts before and after the first occurrence of split.
partition(input, split) ==
    LET i == find(input, {split})
    IN  IF i = 0 THEN None
        ELSE Some(<<SubSeq(input, 1, i - 1), SubSeq(input, i + 1, Len(input))>>)

\* rpartition: the texts before and after the last occurrence of split.
rpartition(input, split) ==
    LET i == rfind(input, split)
    IN  IF i = 0 THEN None
        ELSE Some(<<SubSeq(input, 1, i - 1), SubSeq(input, i + 1, Len(input))>>)

\* is_constraint_char
is_constraint_char(c) == c = ">" \/ c = "<" \/ c = "="

\* str::strip_prefix
strip_prefix(str, prefix) ==
    IF Len(str) >= Len(prefix) /\ SubSeq(str, 1, Len(prefix)) = prefix
    THEN Some(SubSeq(str, Len(prefix) + 1, Len(str)))
    ELSE None

\* Mutant of parse_constraint: the one-character operators are tried first.
mut_parse_constraint_short_first(constraint) ==
    IF strip_prefix(constraint, <<">">>).some
    THEN Some(<<"Greater", strip_prefix(constraint, <<">">>).value>>)
    ELSE IF strip_prefix(constraint, <<"<">>).some
    THEN Some(<<"Less", strip_prefix(constraint, <<"<">>).value>>)
    ELSE IF strip_prefix(constraint, <<"=">>).some
    THEN Some(<<"Equal", strip_prefix(constraint, <<"=">>).value>>)
    ELSE None

\* parse_constraint: the operator and the text after it.
parse_constraint(constraint) ==
    IF strip_prefix(constraint, <<">", "=">>).some
    THEN Some(<<"GreaterEqual", strip_prefix(constraint, <<">", "=">>).value>>)
    ELSE IF strip_prefix(constraint, <<"<", "=">>).some
    THEN Some(<<"LessEqual", strip_prefix(constraint, <<"<", "=">>).value>>)
    ELSE IF strip_prefix(constraint, <<">">>).some
    THEN Some(<<"Greater", strip_prefix(constraint, <<">">>).value>>)
    ELSE IF strip_prefix(constraint, <<"<">>).some
    THEN Some(<<"Less", strip_prefix(constraint, <<"<">>).value>>)
    ELSE IF strip_prefix(constraint, <<"=", "=">>).some
    THEN Some(<<"Equal", strip_prefix(constraint, <<"=", "=">>).value>>)
    ELSE IF strip_prefix(constraint, <<"=">>).some
    THEN Some(<<"Equal", strip_prefix(constraint, <<"=">>).value>>)
    ELSE None

\* The call Version::from_str(version).into() of parse_provides and
\* parse_depends, kept as the call with its argument: the function called is
\* not part of the sources.
Version_from_str(version) == [from_str |-> version]

\* parse_depends: Ok(name, Option<VersionConstraint>), or Err for the panic
\* of unwrap on parse_constraint.
parse_depends(input) ==
    LET start == find(input, {c \in BlobChars : is_constraint_char(c)})
        name == SubSeq(input, 1, start - 1)
        constraint == parse_constraint(SubSeq(input, start, Len(input)))
    IN  IF start # 0
        THEN IF constraint.some
             THEN Ok(<<name, Some([version |-> Version_from_str(constraint.value[2]),
                                   constraint |-> constraint.value[1]])>>)
             ELSE Err("Panic")
        ELSE Ok(<<input, None>>)

\* parse_provides: (name, Option<Version>).
parse_provides(input) ==
    IF partition(input, "=").some
    THEN <<partition(input, "=").value[1],
           Some(Version_from_str(partition(input, "=").value[2]))>>
    ELSE <<input, None>>

\* str::parse::<i32>: an optional sign and at least one digit; Err when a
\* character is no digit or the number does not fit.
parse_signed_i32(str) ==
    LET negative == str # <<>> /\ Head(str) = "-"
        digits == IF str # <<>> /\ Head(str) \in {"+", "-"} THEN Tail(str) ELSE str
        magnitude == parse_i32(digits)
    IN  IF digits = <<>> \/ \E i \in 1..Len(digits) : ~is_digit(digits[i])
        THEN Err("invalid digit found in string")
        ELSE IF magnitude.ok
             THEN Ok(IF negative THEN 0 - magnitude.value ELSE magnitude.value)
        ELSE IF negative /\ StripZeros(digits) = <<"2", "1", "4", "7", "4", "8", "3", "6", "4", "8">>
             THEN Ok((0 - I32Max) - 1)
        ELSE Err("number too large to fit in target type")

\* Version::new
Version_new(epoch, pkgver, pkgrel) == [epoch |-> epoch, pkgver |-> pkgver, pkgrel |-> pkgrel]

\* parse_pkgname_pkgver: Ok(name, Version) or Err(ParseError).
parse_pkgname_pkgver(input) ==
    LET first_split == partition(input, "-")
        second_split == partition(first_split.value[1], "-")
        pkgrel == first_split.value[2]
        name == second_split.value[1]
        epoch_split == partition(second_split.value[2], ":")
        epoch == parse_signed_i32(epoch_split.value[1])
    IN  IF ~first_split.some THEN Err("missing pkver")
        ELSE IF ~second_split.some THEN Err("missing pkgrel")
        ELSE IF epoch_split.some
             THEN IF epoch.ok
                  THEN Ok(<<name, Version_new(epoch.value, epoch_split.value[2], Some(pkgrel))>>)
                  ELSE Err("invalid epoch in package version")
        ELSE Ok(<<name, Version_new(0, second_split.value[2], Some(pkgrel))>>)

\* ------------------------------------------------------------------------
\* Actions of the parsers
\* ------------------------------------------------------------------------

\* No comparison is running.
VersionIdle ==
    /\ va = <<>>
    /\ vb = <<>>
    /\ vc = <<>>
    /\ version_string_ordering = None
    /\ package_version_ordering = None

\* A text whose epoch does not fit an i32.
LongEpochBlob == LongDigitRun \o <<":", "1", "-", "1">>

InitParse ==
    /\ ResolverIdle
    /\ MainIdle
    /\ FilesIdle
    /\ VersionIdle
    /\ blob \in Blobs(MaxBlobLen) \cup {LongEpochBlob}
    /\ parse_output = None

\* char::is_ascii_digit
is_ascii_digit(c) == is_digit(c)

\* Mutant of <Version as FromStr>::from_str: pkgver and pkgrel are split
\* around the first '-'.
mut_FromStr_for_Version_first_dash(input) ==
    LET epoch_split == partition(input, ":")
        epoch == IF epoch_split.some THEN parse_signed_i32(epoch_split.value[1]) ELSE Ok(0)
        version == IF epoch_split.some THEN epoch_split.value[2] ELSE input
        pkgrel_split == partition(version, "-")
        pkgver == IF pkgrel_split.some THEN pkgrel_split.value[1] ELSE version
        pkgrel == IF pkgrel_split.some THEN Some(pkgrel_split.value[2]) ELSE None
    IN  IF ~epoch.ok THEN Err("InvalidEpoch")
        ELSE IF /\ pkgrel.some
                /\ \E i \in 1..Len(pkgrel.value) :
                        ~is_ascii_digit(pkgrel.value[i]) /\ pkgrel.value[i] # "."
             THEN Err("InvalidPkgrel")
             ELSE Ok(Version_new(epoch.value, pkgver, pkgrel))

\* <Version as FromStr>::from_str: Ok(Version) or Err(VersionFromStrError).
FromStr_for_Version(input) ==
    LET epoch_split == partition(input, ":")
        epoch == IF epoch_split.some THEN parse_signed_i32(epoch_split.value[1]) ELSE Ok(0)
        version == IF epoch_split.some THEN epoch_split.value[2] ELSE input
        pkgrel_split == rpartition(version, "-")
        pkgver == IF pkgrel_split.some THEN pkgrel_split.value[1] ELSE version
        pkgrel == IF pkgrel_split.some THEN Some(pkgrel_split.value[2]) ELSE None
    IN  IF ~epoch.ok THEN Err("InvalidEpoch")
        ELSE IF /\ pkgrel.some
                /\ \E i \in 1..Len(pkgrel.value) :
                        ~is_ascii_digit(pkgrel.value[i]) /\ pkgrel.value[i] # "."
             THEN Err("InvalidPkgrel")
             ELSE Ok(Version_new(epoch.value, pkgver, pkgrel))

\* From<VersionFromStrError> for PackageVersionFromStrError
PackageVersionFromStrError_from(other) ==
    CASE other = "InvalidEpoch" -> "InvalidEpoch"
      [] other = "InvalidPkgver" -> "InvalidPkgver"
      [] other = "InvalidPkgrel" -> "InvalidPkgrel"

\* <PackageVersion as FromStr>::from_str: Ok(PackageVersion) or
\* Err(PackageVersionFromStrError).
FromStr_for_PackageVersion(input) ==
    LET version == FromStr_for_Version(input)
    IN  IF ~version.ok THEN Err(PackageVersionFromStrError_from(version.error))
        ELSE IF version.value.pkgrel.some
             THEN Ok([epoch |-> version.value.epoch, pkgver |-> version.value.pkgver,
                      pkgrel |-> version.value.pkgrel.value])
             ELSE Err("MissingPkgRel")

\* parse_depends is called on the text.
ParseDepends ==
    /\ pc = "idle"
    /\ parse_output = None
    /\ parse_output' = Some([parser |-> "parse_depends", value |-> parse_depends(blob)])
    /\ UNCHANGED <<resolver_vars, version_vars, main_vars, file_vars, blob>>

\* parse_provides is called on the text.
ParseProvides ==
    /\ pc = "idle"
    /\ parse_output = None
    /\ parse_output' = Some([parser |-> "parse_provides", value |-> parse_provides(blob)])
    /\ UNCHANGED <<resolver_vars, version_vars, main_vars, file_vars, blob>>

\* parse_pkgname_pkgver is called on the text.
ParsePkgnamePkgver ==
    /\ pc = "idle"
    /\ parse_output = None
    /\ parse_output' =
            Some([parser |-> "parse_pkgname_pkgver", value |-> parse_pkgname_pkgver(blob)])
    /\ UNCHANGED <<resolver_vars, version_vars, main_vars, file_vars, blob>>

\* The text is parsed as a Version.
VersionFromStr ==
    /\ pc = "idle"
    /\ parse_output = None
    /\ parse_output' = Some([parser |-> "Version", value |-> FromStr_for_Version(blob)])
    /\ UNCHANGED <<resolver_vars, version_vars, main_vars, file_vars, blob>>

\* The text is parsed as a PackageVersion.
PackageVersionFromStr ==
    /\ pc = "idle"
    /\ parse_output = None
    /\ parse_output' =
            Some([parser |-> "PackageVersion", value |-> FromStr_for_PackageVersion(blob)])
    /\ UNCHANGED <<resolver_vars, version_vars, main_vars, file_vars, blob>>

NextParse ==
    \/ ParseDepends
    \/ ParseProvides
    \/ ParsePkgnamePkgver
    \/ VersionFromStr
    \/ PackageVersionFromStr

SpecParse == InitParse /\ [][NextParse]_vars

\* ------------------------------------------------------------------------
\* Properties of the parsers
\* ------------------------------------------------------------------------

\* The positions of the characters '>', '<' and '=' in the text.
OperatorPositions == {i \in 1..Len(blob) : blob[i] \in {">", "<", "="}}

\* The operator that starts at position i, and its length: two characters
\* when the next one is '=', else one.
OperatorLen(i) == IF i < Len(blob) /\ blob[i + 1] = "=" THEN 2 ELSE 1

OperatorAt(i) ==
    CASE blob[i] = ">" -> IF OperatorLen(i) = 2 THEN "GreaterEqual" ELSE "Greater"
      [] blob[i] = "<" -> IF OperatorLen(i) = 2 THEN "LessEqual" ELSE "Less"
      [] blob[i] = "=" -> "Equal"

\* C13: for every token, parse_depends succeeds and splits it at the first of
\* the characters '>', '<', '=': the text before is the name; the operator is
\* the first of ">=", "<=", ">", "<", "==", "=" that is a prefix at that
\* position; the remaining text is the version; a token with none of the
\* three characters gives the whole token as name and no constraint.
C13_ParseDepends ==
    (parse_output.some /\ parse_output.value.parser = "parse_depends")
        => LET out == parse_output.value.value
               i == First(OperatorPositions)
           IN  /\ out.ok
               /\ OperatorPositions = {} => out.value = <<blob, None>>
               /\ OperatorPositions # {}
                    => /\ out.value[1] = SubSeq(blob, 1, i - 1)
                       /\ out.value[2].some
                       /\ out.value[2].value.constraint = OperatorAt(i)
                       /\ out.value[2].value.version
                            = Version_from_str(SubSeq(blob, i + OperatorLen(i), Len(blob)))

\* parse_depends has split "f>=1" into the name "f", GreaterEqual and "1".
C13_Witness ==
    /\ blob = <<"f", ">", "=", "1">>
    /\ parse_output.some
    /\ parse_output.value.parser = "parse_depends"
    /\ parse_output.value.value
        = Ok(<<(<<"f">>), Some([version |-> Version_from_str(<<"1">>),
                                constraint |-> "GreaterEqual"])>>)

\* The positions of '=' in the text.
EqualsPositions == {i \in 1..Len(blob) : blob[i] = "="}

\* C14: parse_provides splits a token at its first '=' only: the name is the
\* text before it and the version is all the text after it (which may be
\* empty or contain further '='); a token without '=' gives the whole token
\* as name and no version; '<' and '>' are never treated as operators.
C14_ParseProvides ==
    (parse_output.some /\ parse_output.value.parser = "parse_provides")
        => LET out == parse_output.value.value
               i == First(EqualsPositions)
           IN  /\ EqualsPositions = {} => out = <<blob, None>>
               /\ EqualsPositions # {}
                    => out = <<SubSeq(blob, 1, i - 1),
                               Some(Version_from_str(SubSeq(blob, i + 1, Len(blob))))>>

\* parse_provides has split "f<=1=" into the name "f<" and the version "1=".
C14_Witness ==
    /\ blob = <<"f", "<", "=", "1", "=">>
    /\ parse_output.some
    /\ parse_output.value.parser = "parse_provides"
    /\ parse_output.value.value = <<(<<"f", "<">>), Some(Version_from_str(<<"1", "=">>))>>

\* The positions of '-' in the text.
DashPositions == {i \in 1..Len(blob) : blob[i] = "-"}

\* The last '-' and the one before it, in a text of the form
\* $pkgname-$pkgver-$pkgrel.
PkgrelDash == CHOOSE i \in DashPositions : \A j \in DashPositions : j <= i

PkgverDash ==
    CHOOSE i \in DashPositions \ {PkgrelDash} : \A j \in DashPositions \ {PkgrelDash} : j <= i

\* The parts of such a text.
NamePart == SubSeq(blob, 1, PkgverDash - 1)

PkgverPart == SubSeq(blob, PkgverDash + 1, PkgrelDash - 1)

PkgrelPart == SubSeq(blob, PkgrelDash + 1, Len(blob))

\* C15: for an input of the form `$pkgname-$pkgver-$pkgrel`,
\* parse_pkgname_pkgver returns Ok with the package name and a Version
\* holding that pkgver (epoch taken from an optional `<integer>:` prefix of
\* pkgver, else 0) and that pkgrel; it returns an error only when the pkgver
\* or pkgrel part is missing or the epoch is not an integer.
C15_ParsePkgnamePkgver ==
    (parse_output.some /\ parse_output.value.parser = "parse_pkgname_pkgver"
            /\ Cardinality(DashPositions) >= 2
            /\ NamePart # <<>> /\ PkgverPart # <<>> /\ PkgrelPart # <<>>)
        => LET out == parse_output.value.value
               epoch_split == partition(PkgverPart, ":")
           IN  IF ~epoch_split.some
               THEN out = Ok(<<NamePart, Version_new(0, PkgverPart, Some(PkgrelPart))>>)
               ELSE parse_signed_i32(epoch_split.value[1]).ok
                        => out = Ok(<<NamePart,
                                      Version_new(parse_signed_i32(epoch_split.value[1]).value,
                                                  epoch_split.value[2], Some(PkgrelPart))>>)

\* ========================================================================
\* The indexes of do_main (src/bin/download-packages.rs)
\* ========================================================================

\* Bounds of the inputs: repository databases, and packages per database.
MaxDatabases == 2
MaxRepoPackages == 2

\* The name that packages provide besides their own.
VirtualName == NumNames

\* The packages a database may hold.
RepoPackageChoices ==
    {DatabasePackage(n, v, {}, prov) :
        n \in Names, v \in Versions, prov \in {{}, {Provides(VirtualName, None)}}}

\* The contents a list of databases may have.
DatabaseChoices == SeqsUpTo(SeqsUpTo(RepoPackageChoices, MaxRepoPackages), MaxDatabases)

\* The packages of all repositories in the order of the two loops of
\* index_packages_by_name, each with the position of its repository.
RECURSIVE PackagesInOrder(_, _)
PackagesInOrder(repos, i) ==
    IF i > Len(repos) THEN <<>>
    ELSE [k \in 1..Len(repos[i]) |-> [repo |-> i, package |-> repos[i][k]]]
            \o PackagesInOrder(repos, i + 1)

\* Mutant of insert_package: an occupied entry is replaced.
mut_insert_package_replaces(index, entry) ==
    [n \in DOMAIN index \cup {entry.package.name} |->
        IF n = entry.package.name THEN entry ELSE index[n]]

\* The match on index.entry(name): a vacant entry is filled, an occupied one
\* is left alone.
insert_package(index, entry) ==
    IF entry.package.name \in DOMAIN index
    THEN index
    ELSE [n \in DOMAIN index \cup {entry.package.name} |->
            IF n = entry.package.name THEN entry ELSE index[n]]

\* index_packages_by_name on the packages not yet seen: the index, and the
\* warnings printed, each with the package ignored.
RECURSIVE index_packages(_, _, _)
index_packages(entries, index, warned) ==
    IF entries = <<>> THEN [index |-> index, warnings |-> warned]
    ELSE index_packages(
            Tail(entries),
            insert_package(index, Head(entries)),
            IF Head(entries).package.name \in DOMAIN index
            THEN Append(warned, Head(entries))
            ELSE warned)

index_packages_by_name(repos) == index_packages(PackagesInOrder(repos, 1), <<>>, <<>>)

\* The resolver is not constructed yet.
ResolverNotStarted ==
    /\ packages = <<>>
    /\ providers = <<>>
    /\ selected_packages = {}
    /\ provided_targets = {}
    /\ queue = {}
    /\ next_target = 1
    /\ pc = "idle"
    /\ failed = NoName
    /\ target = NoName
    /\ package = NoName
    /\ taken = {}
    /\ retaken = FALSE
    /\ run = 1
    /\ first = None

\* sync_dbs has returned all the databases; do_main holds the targets of the
\* command line, of which there is at least one.
InitIndex ==
    /\ ResolverNotStarted
    /\ FilesIdle
    /\ targets \in SeqsUpTo(Names, 1) \ {<<>>}
    /\ VersionIdle
    /\ blob = <<>>
    /\ parse_output = None
    /\ databases \in DatabaseChoices \ {<<>>}
    /\ repo_packages = databases
    /\ name_index = <<>>
    /\ no_deps = FALSE
    /\ stage = "index"
    /\ warnings = <<>>
    /\ downloaded = <<>>

\* do_main calls index_packages_by_name.
IndexPackagesByName ==
    /\ stage = "index"
    /\ name_index' = index_packages_by_name(repo_packages).index
    /\ warnings' = index_packages_by_name(repo_packages).warnings
    /\ stage' = "select"
    /\ UNCHANGED <<resolver_vars, version_vars, parse_vars, file_vars,
                   databases, repo_packages, no_deps, downloaded>>

\* The packages of the index, without their repositories.
packages_of(index) == [n \in DOMAIN index |-> index[n].package]

\* do_main without --no-deps: DependencyResolver::new and the entry of resolve.
NewResolver ==
    /\ stage = "select"
    /\ ~no_deps
    /\ packages' = packages_of(name_index)
    /\ providers' = index_providers(packages_of(name_index))
    /\ selected_packages' = {}
    /\ provided_targets' = {}
    /\ queue' = {}
    /\ next_target' = 1
    /\ pc' = "targets"
    /\ stage' = "resolve"
    /\ UNCHANGED <<version_vars, parse_vars, file_vars, targets, failed, target, package, taken,
                   retaken, run, first, databases, repo_packages, name_index, no_deps,
                   warnings, downloaded>>

NextIndex ==
    \/ IndexPackagesByName
    \/ NewResolver

SpecIndex == InitIndex /\ [][NextIndex]_vars

\* ------------------------------------------------------------------------
\* do_main from its entry to its return
\* ------------------------------------------------------------------------

\* Bound of the inputs of do_main: packages per database.
MaxMainRepoPackages == 1

\* The packages a database may hold: packages 1 and 2, which may depend on
\* another name and may provide the virtual name.
MainPackageChoices ==
    {DatabasePackage(n, 1, dep, prov) :
        n \in Names \ {VirtualName},
        dep \in {{}, {Dependency(2, None)}, {Dependency(VirtualName, None)}},
        prov \in {{}, {Provides(VirtualName, None)}}}

MainDatabaseChoices ==
    SeqsUpTo(SeqsUpTo(MainPackageChoices, MaxMainRepoPackages), MaxDatabases)

\* Entry of do_main: the command line gives the targets, the databases (here
\* with the contents their download will give) and --no-deps.
InitMain ==
    /\ ResolverNotStarted
    /\ FilesIdle
    /\ targets \in SeqsUpTo(Names, MaxTargets)
    /\ VersionIdle
    /\ blob = <<>>
    /\ parse_output = None
    /\ databases \in MainDatabaseChoices
    /\ repo_packages = <<>>
    /\ name_index = <<>>
    /\ no_deps \in BOOLEAN
    /\ stage = "start"
    /\ warnings = <<>>
    /\ downloaded = <<>>

\* do_main returns Err before syncing: no target, no database, or a file or
\* URL of the command line that cannot be read or parsed.
InputsRejected ==
    /\ stage = "start"
    /\ stage' = "rejected"
    /\ UNCHANGED <<resolver_vars, version_vars, parse_vars, file_vars, databases, repo_packages,
                   name_index, no_deps, warnings, downloaded>>

\* The inputs pass the checks and sync_dbs is called.
InputsAccepted ==
    /\ stage = "start"
    /\ targets # <<>>
    /\ databases # <<>>
    /\ stage' = "sync"
    /\ UNCHANGED <<resolver_vars, version_vars, parse_vars, file_vars, databases, repo_packages,
                   name_index, no_deps, warnings, downloaded>>

\* sync_dbs, loop body: the next database is downloaded and read.
SyncDatabase ==
    /\ stage = "sync"
    /\ Len(repo_packages) < Len(databases)
    /\ repo_packages' = Append(repo_packages, databases[Len(repo_packages) + 1])
    /\ UNCHANGED <<resolver_vars, version_vars, parse_vars, file_vars, databases, name_index,
                   no_deps, stage, warnings, downloaded>>

\* sync_dbs, loop body: download_database or read_db_dir fails; do_main
\* returns Err.
SyncFails ==
    /\ stage = "sync"
    /\ Len(repo_packages) < Len(databases)
    /\ stage' = "sync_failed"
    /\ UNCHANGED <<resolver_vars, version_vars, parse_vars, file_vars, databases, repo_packages,
                   name_index, no_deps, warnings, downloaded>>

\* sync_dbs returns Ok(repo_packages).
SyncDone ==
    /\ stage = "sync"
    /\ Len(repo_packages) = Len(databases)
    /\ stage' = "index"
    /\ UNCHANGED <<resolver_vars, version_vars, parse_vars, file_vars, databases, repo_packages,
                   name_index, no_deps, warnings, downloaded>>

\* The selected_packages of do_main.
do_main_selected_packages ==
    IF no_deps THEN {targets[i] : i \in 1..Len(targets)} ELSE selected_packages

\* do_main with --no-deps: the targets are the selected packages.
SelectTargets ==
    /\ stage = "select"
    /\ no_deps
    /\ stage' = "download"
    /\ UNCHANGED <<resolver_vars, version_vars, parse_vars, file_vars, databases, repo_packages,
                   name_index, no_deps, warnings, downloaded>>

\* resolve has returned Err: do_main returns Err.
ResolveFailed ==
    /\ stage = "resolve"
    /\ pc = "err"
    /\ stage' = "resolve_failed"
    /\ UNCHANGED <<resolver_vars, version_vars, parse_vars, file_vars, databases, repo_packages,
                   name_index, no_deps, warnings, downloaded>>

\* Mutant of StartDownload: the result of resolve is not looked at.
mut_StartDownload_any_outcome ==
    /\ stage = "resolve"
    /\ pc \in {"ok", "err"}
    /\ stage' = "download"
    /\ UNCHANGED <<resolver_vars, version_vars, parse_vars, file_vars, databases, repo_packages,
                   name_index, no_deps, warnings, downloaded>>

\* resolve has returned Ok: download_packages is called.
StartDownload ==
    /\ stage = "resolve"
    /\ pc = "ok"
    /\ stage' = "download"
    /\ UNCHANGED <<resolver_vars, version_vars, parse_vars, file_vars, databases, repo_packages,
                   name_index, no_deps, warnings, downloaded>>

\* The selected packages that download_packages has not come to yet.
to_download == do_main_selected_packages \ {downloaded[i] : i \in 1..Len(downloaded)}

\* download_packages, loop body: the next selected package is looked up
\* (expect panics on an unknown name) and downloaded, which may fail.
DownloadPackage ==
    /\ stage = "download"
    /\ to_download # {}
    /\ IF First(to_download) \notin DOMAIN name_index
       THEN stage' = "panicked" /\ downloaded' = downloaded
       ELSE \/ stage' = stage /\ downloaded' = Append(downloaded, First(to_download))
            \/ stage' = "download_failed" /\ downloaded' = downloaded
    /\ UNCHANGED <<resolver_vars, version_vars, parse_vars, file_vars, databases, repo_packages,
                   name_index, no_deps, warnings>>

\* download_packages returns Ok: do_main returns Ok.
DownloadDone ==
    /\ stage = "download"
    /\ to_download = {}
    /\ stage' = "done"
    /\ UNCHANGED <<resolver_vars, version_vars, parse_vars, file_vars, databases, repo_packages,
                   name_index, no_deps, warnings, downloaded>>

NextMain ==
    \/ InputsRejected
    \/ InputsAccepted
    \/ SyncDatabase
    \/ SyncFails
    \/ SyncDone
    \/ IndexPackagesByName
    \/ SelectTargets
    \/ NewResolver
    \/ Next
    \/ ResolveFailed
    \/ StartDownload
    \/ DownloadPackage
    \/ DownloadDone

SpecMain == InitMain /\ [][NextMain]_vars

\* ------------------------------------------------------------------------
\* Properties of the indexes
\* ------------------------------------------------------------------------

\* The positions (repository, package) of the packages called n, and the
\* first of them in input order.
PositionsOf(n) ==
    {<<i, k>> \in (1..Len(repo_packages)) \X (1..MaxRepoPackages) :
        k <= Len(repo_packages[i]) /\ repo_packages[i][k].name = n}

Before(x, y) == x[1] < y[1] \/ (x[1] = y[1] /\ x[2] <= y[2])

FirstPositionOf(n) == CHOOSE x \in PositionsOf(n) : \A y \in PositionsOf(n) : Before(x, y)

\* C16: the name index maps each package name to the package of that name
\* that comes first in input order (first repository, first package); a
\* later package with the same name never replaces the entry, is dropped
\* with a warning, and does not make index building fail.
C16_FirstPackageKept ==
    stage = "select"
        => /\ DOMAIN name_index = {n \in Names : PositionsOf(n) # {}}
           /\ \A n \in DOMAIN name_index :
                /\ name_index[n].repo = FirstPositionOf(n)[1]
                /\ name_index[n].package
                    = repo_packages[FirstPositionOf(n)[1]][FirstPositionOf(n)[2]]
           /\ Len(warnings) = Len(PackagesInOrder(repo_packages, 1)) - Cardinality(DOMAIN name_index)
           /\ \A w \in 1..Len(warnings) :
                \E x \in PositionsOf(warnings[w].package.name) :
                    /\ x # FirstPositionOf(warnings[w].package.name)
                    /\ warnings[w].repo = x[1]
                    /\ warnings[w].package = repo_packages[x[1]][x[2]]

\* The index is built from two repositories that hold different packages of
\* the same name; the one of the second repository is dropped with a warning.
C16_Witness ==
    /\ stage = "select"
    /\ Len(repo_packages) = 2
    /\ \E n \in DOMAIN name_index :
        /\ name_index[n].repo = 1
        /\ \E k \in 1..Len(repo_packages[2]) :
            /\ repo_packages[2][k].name = n
            /\ repo_packages[2][k] # name_index[n].package
            /\ \E w \in 1..Len(warnings) :
                warnings[w] = [repo |-> 2, package |-> repo_packages[2][k]]

\* The packages of the name index that provide t: their own name is t or
\* their `provides` list contains t.
IndexedProvidersOf(t) ==
    {n \in DOMAIN name_index :
        \/ name_index[n].package.name = t
        \/ t \in {p.name : p \in name_index[n].package.provides}}

\* C17: the provider index maps a target name t to exactly the set of names
\* of the packages in the name index whose own name is t or whose `provides`
\* list contains t: every indexed package provides itself, one target may
\* have several providers, and every provider listed is a key of the name
\* index (so the 'no such package' error of resolve_target is unreachable).
C17_ProviderIndex ==
    stage = "resolve"
        => /\ DOMAIN providers = {t \in Names : IndexedProvidersOf(t) # {}}
           /\ \A t \in DOMAIN providers : providers[t] = IndexedProvidersOf(t)
           /\ \A n \in DOMAIN name_index : n \in DOMAIN providers /\ n \in providers[n]
           /\ \A t \in DOMAIN providers : providers[t] \subseteq DOMAIN name_index
           /\ \A t \in Names :
                resolve_target(packages, providers, t) # Err("no such package")

\* The provider index is built from a name index in which two packages
\* provide the same name, while a package dropped from the name index
\* provides it too.
C17_Witness ==
    /\ stage = "resolve"
    /\ \E t \in DOMAIN providers : Cardinality(providers[t]) >= 2
    /\ \E w \in 1..Len(warnings) : warnings[w].package.provides # {}


\* The positions of ':' in the text; the text before the first of them (the
\* epoch) and the text after it (all the text when there is no ':').
ColonPositions == {i \in 1..Len(blob) : blob[i] = ":"}

FirstColon == CHOOSE i \in ColonPositions : \A j \in ColonPositions : i <= j

EpochText == SubSeq(blob, 1, FirstColon - 1)

AfterEpochText == IF ColonPositions = {} THEN blob ELSE SubSeq(blob, FirstColon + 1, Len(blob))

\* The decimal digits of i32::MAX.
I32MaxDigits == <<"2", "1", "4", "7", "4", "8", "3", "6", "4", "7">>

\* The text is an integer that an epoch can hold: an optional sign and at
\* least one digit, of a value that fits the i32 of the epoch.
IsInteger(text) ==
    LET unsigned == IF text # <<>> /\ Head(text) \in {"+", "-"} THEN Tail(text) ELSE text
    IN  /\ unsigned # <<>>
        /\ \A i \in 1..Len(unsigned) : unsigned[i] \in {Digits[d] : d \in 1..Len(Digits)}
        /\ \/ CmpNumbers(unsigned, I32MaxDigits) # "Greater"
           \/ Head(text) = "-" /\ CmpNumbers(unsigned, I32MaxDigits) = "Greater"
                /\ CmpNumbers(unsigned, <<"2", "1", "4", "7", "4", "8", "3", "6", "4", "8">>) = "Equal"

\* The positions of '-' after the epoch; the pkgrel is the text after the
\* last of them.
PkgrelDashes == {i \in 1..Len(AfterEpochText) : AfterEpochText[i] = "-"}

PkgrelPresent == PkgrelDashes # {}

PkgrelText ==
    SubSeq(AfterEpochText,
           (CHOOSE i \in PkgrelDashes : \A j \in PkgrelDashes : j <= i) + 1,
           Len(AfterEpochText))

PkgrelValid == \A i \in 1..Len(PkgrelText) : PkgrelText[i] \in {"0", "1", "2", "3", "4", "5", "6", "7", "8", "9", "."}

EpochValid == ColonPositions = {} \/ IsInteger(EpochText)

\* C18: strict parsing of a PackageVersion succeeds exactly when the text
\* before the first ':' (if any) is an integer and a pkgrel (the text after
\* the last '-') is present and consists only of ASCII digits and '.';
\* otherwise it returns InvalidEpoch for a non-integer epoch, else
\* InvalidPkgrel for a pkgrel with any other character, else MissingPkgRel
\* when there is no pkgrel. A Version parsed successfully never holds a
\* pkgrel with a character other than a digit or '.'.
C18_StrictParsing ==
    /\ (parse_output.some /\ parse_output.value.parser = "PackageVersion")
        => LET out == parse_output.value.value
           IN  /\ out.ok <=> (EpochValid /\ PkgrelPresent /\ PkgrelValid)
               /\ ~out.ok =>
                    out.error = IF ~EpochValid THEN "InvalidEpoch"
                                ELSE IF PkgrelPresent /\ ~PkgrelValid THEN "InvalidPkgrel"
                                ELSE "MissingPkgRel"
               /\ out.ok => out.value.pkgrel = PkgrelText
    /\ (parse_output.some /\ parse_output.value.parser = "Version"
            /\ parse_output.value.value.ok
            /\ parse_output.value.value.value.pkgrel.some)
        => \A i \in 1..Len(parse_output.value.value.value.pkgrel.value) :
                parse_output.value.value.value.pkgrel.value[i]
                    \in {"0", "1", "2", "3", "4", "5", "6", "7", "8", "9", "."}

\* A text with an epoch and two '-' is parsed into a PackageVersion whose
\* pkgrel holds a digit and a '.'.
C18_Witness ==
    /\ parse_output.some
    /\ parse_output.value.parser = "PackageVersion"
    /\ blob = <<"1", ":", "-", "-", "1">>
    /\ parse_output.value.value = Ok([epoch |-> 1, pkgver |-> <<"-">>, pkgrel |-> <<"1">>])


\* C19: every Version or PackageVersion obtained by successfully parsing a
\* string has epoch >= 0 (0 when the string has no epoch prefix).
C19_EpochNotNegative ==
    /\ (parse_output.some /\ parse_output.value.parser \in {"Version", "PackageVersion"}
            /\ parse_output.value.value.ok)
        => /\ parse_output.value.value.value.epoch >= 0
           /\ ColonPositions = {} => parse_output.value.value.value.epoch = 0
    /\ (parse_output.some /\ parse_output.value.parser = "parse_pkgname_pkgver"
            /\ parse_output.value.value.ok)
        => parse_output.value.value.value[2].epoch >= 0


\* ------------------------------------------------------------------------
\* Properties of do_main
\* ------------------------------------------------------------------------

\* The stages in which do_main has returned Err before any download.
FailedBeforeDownload == {"rejected", "sync_failed", "resolve_failed"}

\* download_packages has been called.
DownloadStarted(st) == st \in {"download", "download_failed", "panicked", "done"}

\* Every database is synced and the name index is the one of all of them.
IndexComplete(repos, index) ==
    /\ repos = databases
    /\ index = index_packages_by_name(databases).index

\* The order of the stages up to the resolution, and the end after a failure:
\* a step of do_main makes the resolver run only on the complete index, and
\* makes no step at all after a failure of the sync or of the resolution.
ResolveAfterIndex ==
    /\ (pc' # "idle" => stage' # "sync" /\ IndexComplete(repo_packages', name_index'))
    /\ (pc' # "idle" => packages' = packages_of(name_index'))
    /\ (stage \in FailedBeforeDownload
            => stage' = stage /\ downloaded' = downloaded)
    /\ (stage' \in FailedBeforeDownload => downloaded' = <<>>)

ProvidedBySelected ==
    UNION {{n} \cup {p.name : p \in packages[n].provides} :
            n \in selected_packages \cap DOMAIN packages}

\* C21: in every state reached during resolve, `selected` has lost no
\* element it ever held, and `provided` is exactly the union, over the
\* selected packages, of the package name and the names in its `provides`
\* list (so provided is a superset of selected).
C21_SelectedGrowsProvidedExact ==
    /\ [](/\ selected_packages \subseteq DOMAIN packages
          /\ provided_targets = ProvidedBySelected
          /\ selected_packages \subseteq provided_targets)
    /\ [][selected_packages \subseteq selected_packages']_vars

\* Two packages are selected, and a name is provided that is no selected
\* package.
C21_Witness ==
    /\ pc = "drain"
    /\ Cardinality(selected_packages) >= 2
    /\ provided_targets \ selected_packages # {}
    /\ queue # {}


\* A pass of the drain loop of resolve: a target is taken from the queue.
DrainIteration == pc = "drain" /\ queue # {} /\ target' = pop_first(queue)

\* C22: during one resolve, each target name is taken from the queue at most
\* once, and the package chosen for a target that was not yet provided is
\* never a package already in `selected`: no package is expanded twice in
\* the drain phase, so the number of loop iterations is at most the number
\* of distinct names ever enqueued.
C22_TakenOnce ==
    /\ [][DrainIteration =>
            /\ target' \notin taken
            /\ taken' = taken \cup {target'}
            /\ (package' # NoName =>
                    /\ target' \notin provided_targets
                    /\ package' \notin selected_packages
                    /\ package' \in selected_packages')]_vars
    /\ []~retaken

\* resolve has returned after taking two names from the queue, a virtual
\* target and a dependency, on a cyclic depends relation.
C22_Witness ==
    /\ pc = "ok"
    /\ Len(targets) = 1
    /\ targets[1] \notin DOMAIN packages
    /\ Cardinality(taken) = 2
    /\ Cardinality(selected_packages) = 2
    /\ \E a, b \in selected_packages :
        a # b /\ b \in depends_names(packages[a]) /\ a \in depends_names(packages[b])


\* The orders in which a queue can be emptied: a rank for every name, the
\* name of the lowest rank is taken first. The BTreeSet of the code takes the
\* smallest name first, the order of rank n |-> n.
PopOrders == {rank \in [Names -> Names] : \A x, y \in Names : rank[x] = rank[y] => x = y}

pop_in_order(rank, set) == CHOOSE x \in set : \A y \in set : rank[x] <= rank[y]

\* resolve, first loop, from target i on: the selection and the queue after it.
RECURSIVE list_targets(_, _, _, _, _, _)
list_targets(pkgs, tgts, i, selected, provided, pending) ==
    IF i > Len(tgts)
    THEN [selected |-> selected, provided |-> provided, pending |-> pending]
    ELSE IF tgts[i] \in DOMAIN pkgs
         THEN list_targets(pkgs, tgts, i + 1,
                           selected \cup {tgts[i]},
                           provided \cup {tgts[i]} \cup {p.name : p \in pkgs[tgts[i]].provides},
                           pending \cup {d.name : d \in pkgs[tgts[i]].depends})
         ELSE list_targets(pkgs, tgts, i + 1, selected, provided, pending \cup {tgts[i]})

\* resolve, drain loop, with the pending targets taken in the order of rank:
\* Ok(selected_packages) or Err(()).
RECURSIVE drain_in_order(_, _, _, _, _, _)
drain_in_order(pkgs, provs, rank, selected, provided, pending) ==
    IF pending = {} THEN Ok(selected)
    ELSE LET t == pop_in_order(rank, pending)
             rest == pending \ {t}
             found == t \in DOMAIN pkgs \/ (t \in DOMAIN provs /\ provs[t] # {})
             pkg == IF t \in DOMAIN pkgs THEN pkgs[t] ELSE pkgs[First(provs[t])]
             now_provided == provided \cup {pkg.name} \cup {p.name : p \in pkg.provides}
         IN  IF t \in provided
             THEN drain_in_order(pkgs, provs, rank, selected, provided, rest)
             ELSE IF ~found THEN Err(<<>>)
             ELSE drain_in_order(pkgs, provs, rank, selected \cup {pkg.name}, now_provided,
                                 rest \cup ({d.name : d \in pkg.depends} \ now_provided))

\* resolve with the pending targets taken in the order of rank.
resolve_in_order(pkgs, provs, tgts, rank) ==
    LET listed == list_targets(pkgs, tgts, 1, {}, {}, {})
    IN  drain_in_order(pkgs, provs, rank, listed.selected, listed.provided, listed.pending)

\* Bounds of the inputs of the resolves compared over the orders: depends
\* entries per package, and targets.
MaxOrderDepends == 2
MaxOrderTargets == 1

\* The name index over the names S whose packages have the depends names
\* dep[n] and the provides entries prov[n].
OrderNameIndex(S, dep, prov) ==
    [n \in S |-> DatabasePackage(n, 1, {Dependency(d, None) : d \in dep[n]}, prov[n])]

\* DependencyResolver::new followed by the entry of resolve, on every name
\* index over a subset of Names whose packages have up to MaxOrderDepends
\* depends entries, so that two names can be pending at once.
InitOrder ==
    /\ MainIdle
    /\ FilesIdle
    /\ VersionIdle
    /\ blob = <<>>
    /\ parse_output = None
    /\ \E S \in SUBSET Names :
        \E dep \in [S -> SubsetsUpTo(Names, MaxOrderDepends)], prov \in [S -> ProvidesChoices] :
            packages = OrderNameIndex(S, dep, prov)
    /\ providers = index_providers(packages)
    /\ selected_packages = {}
    /\ provided_targets = {}
    /\ targets \in SeqsUpTo(Names, MaxOrderTargets)
    /\ queue = {}
    /\ next_target = 1
    /\ pc = "targets"
    /\ failed = NoName
    /\ target = NoName
    /\ package = NoName
    /\ taken = {}
    /\ retaken = FALSE
    /\ run = 1
    /\ first = None

SpecOrder == InitOrder /\ [][Next]_vars

\* resolve has returned what every order of taking the pending targets returns.
SameInEveryOrder ==
    \A rank \in PopOrders :
        Some(resolve_in_order(packages, providers, targets, rank)) = Outcome

\* C23: the set returned by resolve does not depend on the order in which
\* pending targets are taken from the queue: for the same targets and
\* indexes, every processing order of the queue ends with the same selected
\* set.
C23_OrderIndependent == pc \in {"ok", "err"} => SameInEveryOrder

\* C23 as the code has it: the order matters where a package provides a name
\* (a target taken after a package that provides it is skipped, a target
\* taken before it selects its own package too); on an index without
\* `provides` entries every processing order of the queue ends with the same
\* result, the same selected set or a failure.
C23_OrderIndependentWithoutProvides ==
    (pc \in {"ok", "err"} /\ \A n \in DOMAIN packages : packages[n].provides = {})
        => SameInEveryOrder

\* resolve has returned Ok on an index without provides entries after two
\* names were pending at once, which the orders take one way or the other.
C23_Witness ==
    /\ pc = "ok"
    /\ \A n \in DOMAIN packages : packages[n].provides = {}
    /\ Len(targets) = 1
    /\ Cardinality(packages[targets[1]].depends) = 2
    /\ Cardinality(taken) = 2
    /\ Cardinality(selected_packages) = 3


\* ========================================================================
\* Termination of compare_version_string
\* ========================================================================

\* C24: compare_version_string terminates for every pair of input strings:
\* each pass of the outer loop and of the inner digit/letter loop consumes
\* at least one character of a non-empty remaining input, so the loops end
\* once both strings are fully consumed.
C24_Terminates ==
    version_string_ordering.some
        => \A p \in Pairs : version_string_ordering.value[p] # "Hang"


\* ========================================================================
\* The selected packages handed to download_packages
\* ========================================================================

\* C25: every name in the selected set that do_main hands to
\* download_packages is a key of the name index, so the
\* `expect("selected package list contains unknown package")` in
\* download_packages never fails, on the resolver path and on the --no-deps
\* path alike, for any requested targets.
C25_SelectedAreIndexed ==
    /\ stage = "download" => do_main_selected_packages \subseteq DOMAIN name_index
    /\ stage # "panicked"

\* The same on the resolver path only, where it holds.
ResolvedAreIndexed ==
    ~no_deps =>
        /\ stage = "download" => do_main_selected_packages \subseteq DOMAIN name_index
        /\ stage # "panicked"


\* ========================================================================
\* Strict parsing against the permissive split (src/version/types.rs,
\* src/version/parse.rs)
\* ========================================================================

\* Bound of the inputs: characters per version string.
MaxStrictChars == 3

StrictChars == {"1", "2", "+", "-", ":"}

\* The strings of at most k of these characters.
RECURSIVE StrictStrings(_)
StrictStrings(k) ==
    IF k = 0 THEN {<<>>}
    ELSE StrictStrings(k - 1)
            \cup {Append(str, ch) : str \in StrictStrings(k - 1), ch \in StrictChars}

\* <Version as Ord>::cmp: an Ordering, "Panic" or "Hang".
Ord_for_Version(self, other) ==
    LET pkgver == compare_version_string(self.pkgver, other.pkgver)
    IN  IF cmp_int(self.epoch, other.epoch) # "Equal"
        THEN cmp_int(self.epoch, other.epoch)
        ELSE IF pkgver # "Equal" THEN pkgver
        ELSE IF ~self.pkgrel.some /\ ~other.pkgrel.some THEN "Equal"
        ELSE IF ~self.pkgrel.some THEN "Less"
        ELSE IF ~other.pkgrel.some THEN "Greater"
        ELSE compare_version_string(self.pkgrel.value, other.pkgrel.value)

\* Two version strings are given to compare_package_version.
InitStrict ==
    /\ ResolverIdle
    /\ MainIdle
    /\ FilesIdle
    /\ va \in StrictStrings(MaxStrictChars)
    /\ vb \in StrictStrings(MaxStrictChars)
    /\ vc = <<>>
    /\ version_string_ordering = None
    /\ package_version_ordering = None
    /\ blob = <<>>
    /\ parse_output = None

NextStrict == ComparePackageVersion

SpecStrict == InitStrict /\ [][NextStrict]_vars

\* The raw comparison of the pair p equals the comparison of the two parsed
\* versions, when strict parsing accepts both strings.
AgreesWithParsed(p) ==
    LET parsed_left == FromStr_for_Version(Left(p))
        parsed_right == FromStr_for_Version(Right(p))
    IN  (parsed_left.ok /\ parsed_right.ok)
            => package_version_ordering.value[p]
                    = Ord_for_Version(parsed_left.value, parsed_right.value)

\* C26: for any two strings that strict parsing (Version::from_str) accepts,
\* compare_package_version(a, b) on the raw strings equals the Ord comparison
\* of the two parsed Version values: the permissive split and the strict
\* parse agree on epoch, pkgver and pkgrel.
C26_SplitAgreesWithStrict ==
    package_version_ordering.some => \A p \in Pairs : AgreesWithParsed(p)

\* The positions of ':' in a string.
ColonPositionsOf(str) == {i \in 1..Len(str) : str[i] = ":"}

\* The same for strings without a sign before the epoch, where it holds.
Unsigned(str) == str = <<>> \/ Head(str) \notin {"+", "-"} \/ ColonPositionsOf(str) = {}

UnsignedAgreeWithParsed ==
    package_version_ordering.some
        => \A p \in Pairs : (Unsigned(Left(p)) /\ Unsigned(Right(p))) => AgreesWithParsed(p)


\* ========================================================================
\* The ALPM database deserializer (src/db/deserializer.rs)
\*
\* A line is a sequence of characters, without its line ending.
\* ========================================================================

\* Bound of the inputs: lines per file.
MaxDbLines == 4

\* The lines a file may hold: an empty line, keys (the known fields N, a
\* string, and L, a list), a key without a name, a single '%', and values.
DbLineChoices ==
    {<<>>, <<"%", "N", "%">>, <<"%", "L", "%">>, <<"%", "%">>, <<"%">>, <<"a">>, <<"%", "a">>}

\* A panic with its message.
Panicked(message) == [ok |-> FALSE, panic |-> message]

\* BufRead::read_line until a line that is not empty: the line (None at the
\* end of the input), the rest of the input and the lines read.
RECURSIVE read_from_reader(_, _)
read_from_reader(reader, count) ==
    IF reader = <<>> THEN [line |-> None, reader |-> reader, count |-> count]
    ELSE IF Head(reader) = <<>> THEN read_from_reader(Tail(reader), count + 1)
    ELSE [line |-> Some(Head(reader)), reader |-> Tail(reader), count |-> count + 1]

\* Deserializer::read_line: the line, or None, and the Deserializer afterwards.
read_line(d) ==
    IF d.peek_buffer.some
    THEN [value |-> d.peek_buffer,
          d |-> [d EXCEPT !.peek_buffer = None, !.line = d.line + 1]]
    ELSE LET r == read_from_reader(d.reader, 0)
         IN  [value |-> r.line,
              d |-> [d EXCEPT !.reader = r.reader, !.line = d.line + r.count]]

\* Deserializer::peek_line: the line in the peek buffer afterwards, or None.
peek_line(d) ==
    IF d.peek_buffer.some THEN [value |-> d.peek_buffer, d |-> d]
    ELSE LET r == read_line(d)
         IN  IF r.value.some
             THEN [value |-> r.value,
                   d |-> [r.d EXCEPT !.line = r.d.line - 1, !.peek_buffer = r.value]]
             ELSE [value |-> None, d |-> r.d]

\* str::starts_with('%') && str::ends_with('%')
is_key_line(line) == line # <<>> /\ Head(line) = "%" /\ line[Len(line)] = "%"

\* Deserializer::read_key: Ok(Some(key)), Ok(None) at the end of the input,
\* Err, or the panic of String::remove on an empty string.
read_key(d) ==
    LET r == read_line(d)
        popped == SubSeq(r.value.value, 1, Len(r.value.value) - 1)
    IN  IF ~r.value.some THEN [value |-> Ok(None), d |-> r.d]
        ELSE IF is_key_line(r.value.value)
             THEN IF popped = <<>>
                  THEN [value |-> Panicked("cannot remove a char from the end of a string"),
                        d |-> r.d]
                  ELSE [value |-> Ok(Some(Tail(popped))), d |-> r.d]
             ELSE [value |-> Err("expected \"%NAME%\""), d |-> r.d]

\* Deserializer::read_value for a String: the next line, or an error at the
\* end of the input.
read_value(d) ==
    LET r == read_line(d)
    IN  IF r.value.some THEN [value |-> Ok(r.value.value), d |-> r.d]
        ELSE [value |-> Err("unexpected end of file"), d |-> r.d]

\* A file is handed to the deserializer and the visitor of the struct asks
\* for its first key.
InitDeserializer ==
    /\ ResolverIdle
    /\ VersionIdle
    /\ MainIdle
    /\ blob = <<>>
    /\ parse_output = None
    /\ SrcinfoIdle
    /\ SyncIdle
    /\ \E lines \in SeqsUpTo(DbLineChoices, MaxDbLines) :
        deserializer = [reader |-> lines, line |-> 0, peek_buffer |-> None]
    /\ visitor = "key"
    /\ de_result = None

\* The result of a call: the visitor goes on, or deserializing ends with
\* the error or the panic.
AfterCall(value, next) ==
    IF value.ok THEN next ELSE IF "panic" \in DOMAIN value THEN "panicked" ELSE "failed"

\* MapAccess::next_key_seed: a key is read by deserialize_identifier when
\* there is a line left.
NextKeySeed ==
    /\ visitor = "key"
    /\ LET peeked == peek_line(deserializer)
           key == read_key(peeked.d)
       IN  IF ~peeked.value.some
           THEN /\ deserializer' = peeked.d
                /\ de_result' = Some([call |-> "next_key_seed", line |-> None,
                                      value |-> Ok(None)])
                /\ visitor' = "done"
           ELSE /\ deserializer' = key.d
                /\ de_result' = Some([call |-> "next_key_seed", line |-> peeked.value,
                                      value |-> key.value])
                /\ visitor' = AfterCall(key.value, "value")
    /\ UNCHANGED <<resolver_vars, version_vars, parse_vars, main_vars, srcinfo_vars, sync_vars>>

\* The visitor does not take the key (an unknown or a duplicate field):
\* visit_string returns an error.
VisitorRejectsKey ==
    /\ visitor = "value"
    /\ visitor' = "failed"
    /\ de_result' = Some([call |-> "visit_string", line |-> None, value |-> Err("unknown field")])
    /\ UNCHANGED <<resolver_vars, version_vars, parse_vars, main_vars, srcinfo_vars, sync_vars, deserializer>>

\* MapAccess::next_value_seed for a field that is a String.
NextValueSeedString ==
    /\ visitor = "value"
    /\ LET r == read_value(deserializer)
       IN  /\ deserializer' = r.d
           /\ de_result' = Some([call |-> "next_value_seed", line |-> None, value |-> r.value])
           /\ visitor' = AfterCall(r.value, "key")
    /\ UNCHANGED <<resolver_vars, version_vars, parse_vars, main_vars, srcinfo_vars, sync_vars>>

\* MapAccess::next_value_seed for a field that is a list: deserialize_seq
\* hands the visitor the sequence.
NextValueSeedSeq ==
    /\ visitor = "value"
    /\ visitor' = "element"
    /\ de_result' = Some([call |-> "deserialize_seq", line |-> None, value |-> Ok(None)])
    /\ UNCHANGED <<resolver_vars, version_vars, parse_vars, main_vars, srcinfo_vars, sync_vars, deserializer>>

\* SeqAccess::next_element_seed: the list ends at the end of the input and
\* before a key line; any other line is an element.
NextElementSeed ==
    /\ visitor = "element"
    /\ LET peeked == peek_line(deserializer)
           element == read_value(peeked.d)
       IN  IF ~peeked.value.some \/ is_key_line(peeked.value.value)
           THEN /\ deserializer' = peeked.d
                /\ de_result' = Some([call |-> "next_element_seed", line |-> peeked.value,
                                      value |-> Ok(None)])
                /\ visitor' = "key"
           ELSE /\ deserializer' = element.d
                /\ de_result' = Some([call |-> "next_element_seed", line |-> peeked.value,
                                      value |-> Ok(Some(element.value.value))])
                /\ visitor' = "element"
    /\ UNCHANGED <<resolver_vars, version_vars, parse_vars, main_vars, srcinfo_vars, sync_vars>>

NextDeserializer ==
    \/ NextKeySeed
    \/ VisitorRejectsKey
    \/ NextValueSeedString
    \/ NextValueSeedSeq
    \/ NextElementSeed

SpecDeserializer == InitDeserializer /\ [][NextDeserializer]_vars

\* A line of the form %NAME%.
IsNamedKey(line) == Len(line) >= 2 /\ Head(line) = "%" /\ line[Len(line)] = "%"

\* C27: the ALPM database deserializer never panics: for every input, each
\* step returns Ok or Err; in particular, where a key is expected, any line
\* that is not `%NAME%` - including a line that is the single character '%' -
\* yields the error 'expected "%NAME%"'.
C27_NeverPanics ==
    /\ visitor # "panicked"
    /\ de_result.some => "panic" \notin DOMAIN de_result.value.value
    /\ (de_result.some /\ de_result.value.call = "next_key_seed" /\ de_result.value.line.some
            /\ ~IsNamedKey(de_result.value.line.value))
        => de_result.value.value = Err("expected \"%NAME%\"")

\* The same for every line but the single '%', where it holds: a key line
\* gives its name, any other line the error.
KeysReadButPercent ==
    (de_result.some /\ de_result.value.call = "next_key_seed" /\ de_result.value.line.some
            /\ de_result.value.line.value # <<"%">>)
        => LET line == de_result.value.line.value
           IN  IF IsNamedKey(line)
               THEN de_result.value.value = Ok(Some(SubSeq(line, 2, Len(line) - 1)))
               ELSE de_result.value.value = Err("expected \"%NAME%\"")


\* ========================================================================
\* The .SRCINFO parser (src/srcinfo.rs)
\*
\* A blob is the sequence of its lines, and a line a sequence of pieces: a
\* word (a key or a value), a space or the '=' sign stand for its
\* characters.
\* ========================================================================

\* Bounds of the inputs: the lines of a blob chosen freely, and the calls
\* of next() on one iterator.
MaxSrcinfoLines == 4
MaxNextCalls == 3

\* The lines of a freely chosen blob: an empty line, a line of spaces, a
\* line without '=', and lines with a key.
SrcinfoLineChoices ==
    {<<>>, <<"x">>,
     <<"pkgname", "=", "a">>, <<" ", "pkgname", " ", "=", " ", "b", " ">>,
     <<"pkgver", "=", "1">>, <<"pkgrel", "=", "1">>, <<"epoch", "=", "x">>,
     <<"depends", "=", "1">>}

\* The keys of the fields a package takes over from the pkgbase, and the
\* field each key sets.
InheritedKeys ==
    {"url", "pkgdesc", "license", "groups", "backup", "provides", "conflicts", "replaces",
     "depends", "optdepends", "makedepends", "checkdepends"}

FieldOfKey(key) ==
    CASE key = "url" -> "url"
      [] key = "pkgdesc" -> "description"
      [] key = "license" -> "licenses"
      [] key = "groups" -> "groups"
      [] key = "backup" -> "backup"
      [] key = "provides" -> "provides"
      [] key = "conflicts" -> "conflicts"
      [] key = "replaces" -> "replaces"
      [] key = "depends" -> "depends"
      [] key = "optdepends" -> "opt_depends"
      [] key = "makedepends" -> "make_depends"
      [] key = "checkdepends" -> "check_depends"

\* The lines `key = value` for the keys of a set, in a fixed order.
RECURSIVE KeyLines(_, _)
KeyLines(keys, value) ==
    IF keys = {} THEN <<>>
    ELSE LET key == CHOOSE k \in keys : TRUE
         IN  <<<<key, " ", "=", " ", value>>>> \o KeyLines(keys \ {key}, value)

\* Bound of the split packages: the keys set in the pkgbase and in the
\* section of the package.
MaxSectionKeys == 1

\* The blobs of a split package: a pkgbase with pkgver, pkgrel and some of
\* the inherited keys, and one or two packages, the first with its own
\* values for some of the keys.
SplitBlobs ==
    {<<<<"pkgver", "=", "1">>, <<"pkgrel", "=", "1">>>> \o KeyLines(B, "1")
        \o <<<<"pkgname", "=", "a">>>> \o KeyLines(P, "2") \o more :
        B \in SubsetsUpTo(InheritedKeys, MaxSectionKeys),
        P \in SubsetsUpTo(InheritedKeys, MaxSectionKeys),
        more \in {<<>>, <<<<"pkgname", "=", "b">>>>}}

\* str::trim
RECURSIVE trim_start(_)
trim_start(str) == IF str # <<>> /\ Head(str) = " " THEN trim_start(Tail(str)) ELSE str

RECURSIVE trim_end(_)
trim_end(str) ==
    IF str # <<>> /\ str[Len(str)] = " " THEN trim_end(SubSeq(str, 1, Len(str) - 1)) ELSE str

trim(str) == trim_end(trim_start(str))

\* Result::map_err on a fixed error.
map_err(result, error) == IF result.ok THEN result ELSE error

\* The item of iterate_info for a trimmed line that is not empty and its
\* partition around '=': an error for a line without '=', the trimmed key
\* and value otherwise.
info_of_partition(trimmed, split) ==
    IF ~split.some THEN Some(Err(<<"expected 'key = value' or empty line", trimmed>>))
    ELSE Some(Ok(<<trim(split.value[1]), trim(split.value[2])>>))

\* The item of iterate_info for a trimmed line: None for an empty line.
info_of_trimmed(trimmed) ==
    IF trimmed = <<>> THEN None ELSE info_of_partition(trimmed, partition(trimmed, "="))

\* The closure of iterate_info on a line.
iterate_info_line(line) == info_of_trimmed(trim(line))

\* Peekable::next on iterate_info(blob): the next item, None at the end,
\* and the lines left.
RECURSIVE data_iterator_next(_)
RECURSIVE next_after(_, _)
next_after(lines, item) ==
    IF item.some THEN [item |-> item, rest |-> Tail(lines)]
    ELSE data_iterator_next(Tail(lines))

data_iterator_next(lines) ==
    IF lines = <<>> THEN [item |-> None, rest |-> <<>>]
    ELSE next_after(lines, iterate_info_line(Head(lines)))

\* Peekable::peek
data_iterator_peek(lines) == data_iterator_next(lines).item

\* PartialPackage::default
PartialPackage_default ==
    [pkgname |-> None, epoch |-> None, pkgver |-> None, pkgrel |-> None,
     url |-> None, description |-> None, licenses |-> None,
     groups |-> None, backup |-> None,
     provides |-> None, conflicts |-> None, replaces |-> None,
     depends |-> None, opt_depends |-> None, make_depends |-> None, check_depends |-> None]

\* set_once: the option afterwards, or the error of a key given twice.
set_once(option, value, key) ==
    IF option.some THEN Err(<<"duplicate key", key>>) ELSE Ok(Some(value))

\* Option::get_or_insert(Default::default()).push(value)
get_or_insert_push(option, value) ==
    Some(Append(IF option.some THEN option.value ELSE <<>>, value))

\* insert_map on Option::get_or_insert(Default::default()): the map
\* afterwards, or the error of a name given twice with different values.
insert_map(option, map_name, entry) ==
    LET map == IF option.some THEN option.value ELSE <<>>
    IN  IF entry[1] \notin DOMAIN map
        THEN Ok(Some([k \in DOMAIN map \cup {entry[1]} |->
                        IF k = entry[1] THEN entry[2] ELSE map[k]]))
        ELSE IF map[entry[1]] = entry[2] THEN Ok(Some(map))
        ELSE Err(<<"duplicate with different value", map_name, entry[1]>>)

\* The arm of `match key` in parse_data_line: the field the key sets and how
\* it is set (set_once, push on a list, insert_map of parse_provides or of
\* parse_depends); unknown keys are ignored.
match_key(key) ==
    IF key = <<"epoch">> THEN [how |-> "set_once", field |-> "epoch"]
    ELSE IF key = <<"pkgver">> THEN [how |-> "set_once", field |-> "pkgver"]
    ELSE IF key = <<"pkgrel">> THEN [how |-> "set_once", field |-> "pkgrel"]
    ELSE IF key \in {<<"url">>, <<"pkgdesc">>}
         THEN [how |-> "set_once", field |-> FieldOfKey(key[1])]
    ELSE IF key \in {<<"license">>, <<"groups">>, <<"backup">>}
         THEN [how |-> "push", field |-> FieldOfKey(key[1])]
    ELSE IF key = <<"provides">> THEN [how |-> "parse_provides", field |-> "provides"]
    ELSE IF key \in {<<"conflicts">>, <<"replaces">>, <<"depends">>, <<"optdepends">>,
                     <<"makedepends">>, <<"checkdepends">>}
         THEN [how |-> "parse_depends", field |-> FieldOfKey(key[1])]
    ELSE [how |-> "ignore", field |-> ""]

\* The value of a line as its arm of parse_data_line reads it: the epoch
\* parsed as i32 (or the error), the entry of parse_provides or of
\* parse_depends (or the panic of its unwrap), the text otherwise.
parse_value(how, key, value) ==
    IF key = <<"epoch">> THEN map_err(parse_signed_i32(value), Err(<<"invalid epoch", value>>))
    ELSE IF how = "parse_provides" THEN Ok(parse_provides(value))
    ELSE IF how = "parse_depends"
         THEN map_err(parse_depends(value), Panicked("called Option::unwrap() on a None value"))
    ELSE Ok(value)

\* The field of the package after the arm for its key ran, or the error of
\* set_once or insert_map.
set_field(option, how, key, parsed) ==
    IF how = "set_once" THEN set_once(option, parsed, key)
    ELSE IF how = "push" THEN Ok(get_or_insert_push(option, parsed))
    ELSE insert_map(option, key, parsed)

\* What parse_data_line returns, with the iterator and the package
\* afterwards; the line is taken from the iterator where Ok(false) is
\* returned.
line_returns(result, next, data_iterator, pkg) ==
    [result |-> result,
     data_iterator |-> IF result = Ok(FALSE) THEN next.rest ELSE data_iterator,
     pkg |-> pkg]

\* parse_data_line after set_once, push or insert_map.
line_of_set(next, data_iterator, pkg, field, set) ==
    IF ~set.ok THEN line_returns(set, next, data_iterator, pkg)
    ELSE line_returns(Ok(FALSE), next, data_iterator, [pkg EXCEPT ![field] = set.value])

\* parse_data_line in the arm of the key, with the value as the arm reads it.
line_of_arm(next, data_iterator, pkg, key, arm, parsed) ==
    IF arm.how = "ignore" THEN line_returns(Ok(FALSE), next, data_iterator, pkg)
    ELSE IF ~parsed.ok THEN line_returns(parsed, next, data_iterator, pkg)
    ELSE line_of_set(next, data_iterator, pkg, arm.field,
                     set_field(pkg[arm.field], arm.how, key, parsed.value))

\* parse_data_line on a key and a value.
line_of_key(next, data_iterator, pkg, key, value, arm) ==
    IF key = <<"pkgname">> THEN line_returns(Ok(TRUE), next, data_iterator, pkg)
    ELSE line_of_arm(next, data_iterator, pkg, key, arm, parse_value(arm.how, key, value))

\* parse_data_line on the item peek() shows.
line_of_item(next, data_iterator, pkg) ==
    IF ~next.item.some THEN line_returns(Ok(TRUE), next, data_iterator, pkg)
    ELSE IF ~next.item.value.ok THEN line_returns(next.item.value, next, data_iterator, pkg)
    ELSE line_of_key(next, data_iterator, pkg, next.item.value.value[1],
                     next.item.value.value[2], match_key(next.item.value.value[1]))

\* parse_data_line: Ok(true) once the section is done, Ok(false) after a
\* line was taken, or the error, with the iterator and the package
\* afterwards. The line is looked at with peek() and taken from the iterator
\* only where no error is returned.
parse_data_line(data_iterator, pkg) ==
    line_of_item(data_iterator_next(data_iterator), data_iterator, pkg)

\* parse_data_lines: the lines of one section; Ok(package) or the error,
\* and the iterator afterwards.
RECURSIVE parse_data_lines(_, _)
RECURSIVE lines_after(_)
lines_after(line) ==
    IF ~line.result.ok THEN [result |-> line.result, data_iterator |-> line.data_iterator]
    ELSE IF line.result.value
         THEN [result |-> Ok(line.pkg), data_iterator |-> line.data_iterator]
    ELSE parse_data_lines(line.data_iterator, line.pkg)

parse_data_lines(data_iterator, pkg) == lines_after(parse_data_line(data_iterator, pkg))

\* parse_base on the lines parsed: the pkgbase has to hold pkgver and pkgrel.
base_of_lines(base) ==
    IF ~base.result.ok THEN base
    ELSE IF ~base.result.value.pkgver.some
         THEN [result |-> Err(<<"missing pkgver in pkgbase">>),
               data_iterator |-> base.data_iterator]
    ELSE IF ~base.result.value.pkgrel.some
         THEN [result |-> Err(<<"missing pkgrel in pkgbase">>),
               data_iterator |-> base.data_iterator]
    ELSE base

\* parse_base
parse_base(data_iterator) == base_of_lines(parse_data_lines(data_iterator, PartialPackage_default))

\* PartialPackage::add_base
add_base(self, base) ==
    [self EXCEPT
        !.url = IF ~self.url.some THEN base.url ELSE @,
        !.description = IF ~self.description.some THEN base.description ELSE @,
        !.licenses = IF ~self.licenses.some THEN base.licenses ELSE @,
        !.groups = IF ~self.groups.some THEN base.groups ELSE @,
        !.backup = IF ~self.backup.some THEN base.backup ELSE @,
        !.provides = IF ~self.provides.some THEN base.provides ELSE @,
        !.conflicts = IF ~self.conflicts.some THEN base.conflicts ELSE @,
        !.replaces = IF ~self.replaces.some THEN base.replaces ELSE @,
        !.depends = IF ~self.depends.some THEN base.depends ELSE @,
        !.opt_depends = IF ~self.opt_depends.some THEN base.opt_depends ELSE @]

\* parse_package after the lines of the section were parsed.
package_of_lines(lines, base) ==
    IF ~lines.result.ok
    THEN [result |-> IF "panic" \in DOMAIN lines.result THEN lines.result
                     ELSE Some(lines.result),
          data_iterator |-> lines.data_iterator]
    ELSE [result |-> Some(Ok(add_base(lines.result.value, base))),
          data_iterator |-> lines.data_iterator]

\* parse_package on the item next() returned.
package_of_item(next, base) ==
    IF ~next.item.some THEN [result |-> None, data_iterator |-> next.rest]
    ELSE IF ~next.item.value.ok
         THEN [result |-> Some(next.item.value), data_iterator |-> next.rest]
    ELSE IF next.item.value.value[1] # <<"pkgname">>
         THEN [result |-> Panicked("logic error: next item in iterator had to be pkgname"),
               data_iterator |-> next.rest]
    ELSE package_of_lines(
            parse_data_lines(next.rest,
                             [PartialPackage_default EXCEPT
                                 !.pkgname = Some(next.item.value.value[2]),
                                 !.epoch = base.epoch,
                                 !.pkgver = base.pkgver,
                                 !.pkgrel = base.pkgrel]),
            base)

\* parse_package: None at the end of the lines, Some(Ok(package)),
\* Some(Err(error)), or the panic where the next line has another key than
\* pkgname.
parse_package(data_iterator, base) == package_of_item(data_iterator_next(data_iterator), base)

\* Option::unwrap_or_default
unwrap_or_default(option) == IF option.some THEN option.value ELSE <<>>

\* PartialPackage::into_package
into_package(self) ==
    IF ~self.pkgname.some THEN Err(<<"missing pkgname">>)
    ELSE IF ~self.pkgver.some THEN Err(<<"missing pkgver">>)
    ELSE Ok([pkgname |-> self.pkgname.value,
             epoch |-> IF self.epoch.some THEN self.epoch.value ELSE 0,
             pkgver |-> self.pkgver.value,
             pkgrel |-> self.pkgrel,
             url |-> self.url,
             description |-> self.description,
             licenses |-> unwrap_or_default(self.licenses),
             groups |-> unwrap_or_default(self.groups),
             backup |-> unwrap_or_default(self.backup),
             provides |-> unwrap_or_default(self.provides),
             conflicts |-> unwrap_or_default(self.conflicts),
             replaces |-> unwrap_or_default(self.replaces),
             depends |-> unwrap_or_default(self.depends),
             opt_depends |-> unwrap_or_default(self.opt_depends),
             make_depends |-> unwrap_or_default(self.make_depends),
             check_depends |-> unwrap_or_default(self.check_depends)])

\* PackageIterator::new
PackageIterator_new(data_iterator) ==
    [data_iterator |-> data_iterator, base |-> PartialPackage_default, base_done |-> FALSE]

\* parse_srcinfo_blob is called on a blob.
InitSrcinfo ==
    /\ ResolverIdle
    /\ VersionIdle
    /\ MainIdle
    /\ blob = <<>>
    /\ parse_output = None
    /\ DeserializerIdle
    /\ SyncIdle
    /\ \/ srcinfo_blob \in SeqsUpTo(SrcinfoLineChoices, MaxSrcinfoLines)
       \/ srcinfo_blob \in SplitBlobs
    /\ package_iterator = PackageIterator_new(srcinfo_blob)
    /\ yielded = <<>>

\* A panic ended the program.
HasPanicked == yielded # <<>> /\ "panic" \in DOMAIN yielded[Len(yielded)]

\* PackageIterator::next after the pkgbase: parse_package, and into_package
\* on the package it returned.
next_package(base, parsed) ==
    [self |-> [data_iterator |-> parsed.data_iterator, base |-> base, base_done |-> TRUE],
     item |-> IF "some" \in DOMAIN parsed.result /\ parsed.result.some
                     /\ parsed.result.value.ok
              THEN Some(into_package(parsed.result.value.value))
              ELSE parsed.result]

\* PackageIterator::next of the first call, after parse_base: base_done is
\* set whatever parse_base returned.
next_after_base(self, base) ==
    IF ~base.result.ok
    THEN [self |-> [self EXCEPT !.base_done = TRUE, !.data_iterator = base.data_iterator],
          item |-> Some(base.result)]
    ELSE next_package(base.result.value, parse_package(base.data_iterator, base.result.value))

\* PackageIterator::next: the iterator afterwards and the item returned.
PackageIterator_next(self) ==
    IF self.base_done
    THEN next_package(self.base, parse_package(self.data_iterator, self.base))
    ELSE next_after_base(self, parse_base(self.data_iterator))

\* A call of next() on the iterator.
PackageIteratorNext ==
    /\ Len(yielded) < MaxNextCalls
    /\ ~HasPanicked
    /\ LET called == PackageIterator_next(package_iterator)
       IN  /\ package_iterator' = called.self
           /\ yielded' = Append(yielded, called.item)
    /\ UNCHANGED <<resolver_vars, version_vars, parse_vars, main_vars, de_vars, sync_vars,
                   srcinfo_blob>>

NextSrcinfo == PackageIteratorNext

SpecSrcinfo == InitSrcinfo /\ [][NextSrcinfo]_vars

\* C28: whatever the blob and however often next() is called on the
\* iterator of parse_srcinfo_blob, also after it yielded an error, the panic
\* 'logic error: next item in iterator had to be pkgname' is never reached.
C28_NeverLogicError ==
    \A i \in 1..Len(yielded) : "panic" \notin DOMAIN yielded[i]

\* The call of next() yielded an error.
YieldedError(i) == yielded[i].some /\ ~yielded[i].value.ok

\* The same for the calls up to the first error, where it holds: a panic is
\* reached only by a call after an error was yielded.
NoLogicErrorBeforeError ==
    \A i \in 1..Len(yielded) :
        "panic" \in DOMAIN yielded[i] => \E j \in 1..(i - 1) : YieldedError(j)


\* The item is a pkgname line.
IsPkgnameItem(item) == item.some /\ item.value.ok /\ item.value.value[1] = <<"pkgname">>

\* The positions of the pkgname lines of a blob.
PkgnameLines(lines) == {i \in 1..Len(lines) : IsPkgnameItem(iterate_info_line(lines[i]))}

\* The lines of the pkgbase: those before the first pkgname line.
BaseSection(lines) ==
    IF PkgnameLines(lines) = {} THEN lines
    ELSE SubSeq(lines, 1, First(PkgnameLines(lines)) - 1)

\* The lines of the section of the package whose pkgname line is at start.
OwnSection(lines, start) ==
    LET later == {i \in PkgnameLines(lines) : i > start}
    IN  SubSeq(lines, start + 1, IF later = {} THEN Len(lines) ELSE First(later) - 1)

\* The position of the k-th pkgname line.
KthPkgnameLine(lines, k) ==
    CHOOSE i \in PkgnameLines(lines) : Cardinality({j \in PkgnameLines(lines) : j <= i}) = k

\* What the lines of one section set, read on their own.
SetBySection(section) == parse_data_lines(section, PartialPackage_default).result.value

\* A field of a Package for the field of a PartialPackage: url and
\* description stay options, the lists and maps are empty when unset.
FinalField(field, option) ==
    IF field \in {"url", "description"} THEN option ELSE unwrap_or_default(option)

\* The first k calls of next() all yielded a package.
AllYieldedPackages(k) ==
    \A j \in 1..k : "some" \in DOMAIN yielded[j] /\ yielded[j].some /\ yielded[j].value.ok

\* The package has, for each of the keys, its own value where its section
\* sets the key and the value of the pkgbase where it does not.
InheritsFrom(pkg, keys, own, base) ==
    \A key \in keys :
        pkg[FieldOfKey(key)]
            = FinalField(FieldOfKey(key),
                         IF own[FieldOfKey(key)].some THEN own[FieldOfKey(key)]
                         ELSE base[FieldOfKey(key)])

\* The same for the k-th package yielded.
InheritsKeys(k, keys) ==
    InheritsFrom(yielded[k].value.value, keys,
                 SetBySection(OwnSection(srcinfo_blob, KthPkgnameLine(srcinfo_blob, k))),
                 SetBySection(BaseSection(srcinfo_blob)))

\* C29: each package parsed from a .SRCINFO blob takes the value of the
\* pkgbase for every field its own section does not set - url, description,
\* licenses, groups, backup, provides, conflicts, replaces, depends,
\* optdepends, makedepends and checkdepends - and keeps its own value for
\* every field it sets.
C29_InheritsFromBase ==
    \A k \in 1..Len(yielded) : AllYieldedPackages(k) => InheritsKeys(k, InheritedKeys)

\* The same without makedepends and checkdepends, where it holds.
InheritsButMakeAndCheckDepends ==
    \A k \in 1..Len(yielded) :
        AllYieldedPackages(k) => InheritsKeys(k, InheritedKeys \ {"makedepends", "checkdepends"})

\* A package took a value over from the pkgbase and kept one of its own.
InheritsWitness ==
    /\ Len(yielded) >= 1
    /\ AllYieldedPackages(1)
    /\ yielded[1].value.value.url = Some(<<"1">>)
    /\ yielded[1].value.value.licenses = <<<<"2">>>>


\* ========================================================================
\* download_database (src/bin/download-packages.rs)
\*
\* The archive of a database is known by a number the server counts up
\* with each new archive; the validators ETag and Last-Modified of a reply
\* are written as the number of the archive they came with.
\* ========================================================================

\* Bounds: the archives the server publishes, and the runs of
\* download_database on one directory.
MaxArchives == 2
MaxSyncRuns == 3

\* The server has its first archive, nothing is on disk, and no run of
\* download_database has started.
InitSync ==
    /\ ResolverIdle
    /\ VersionIdle
    /\ MainIdle
    /\ blob = <<>>
    /\ parse_output = None
    /\ DeserializerIdle
    /\ SrcinfoIdle
    /\ db_directory = NoDirectory
    /\ db_server = 1
    /\ db_pc = "idle"
    /\ db_download = None
    /\ db_runs = 0
    /\ db_ignored = FALSE

\* No run of download_database is under way.
BetweenRuns == db_pc \in {"idle", "failed", "up_to_date", "done", "killed"}

\* std::fs::read_to_string(path).ok() on the two files.
stored_validators == [etag |-> db_directory.etag, last_modified |-> db_directory.last_modified]

\* The server answers 304 Not Modified: the request gave a validator, and
\* every validator it gave is the one of the archive the server holds.
NotModified(last_modified, etag) ==
    /\ last_modified.some \/ etag.some
    /\ etag.some => etag.value = db_server
    /\ last_modified.some => last_modified.value >= db_server

\* download_database starts, and maybe_download returns an error: the
\* request fails, the status is an error, or the body cannot be read.
MaybeDownloadFails ==
    /\ BetweenRuns
    /\ db_runs < MaxSyncRuns
    /\ db_runs' = db_runs + 1
    /\ db_pc' = "failed"
    /\ UNCHANGED <<resolver_vars, version_vars, parse_vars, main_vars, de_vars, srcinfo_vars,
                   db_directory, db_server, db_download, db_ignored>>

\* download_database starts, and maybe_download returns Ok(None) for the
\* reply 304: nothing is touched.
MaybeDownloadNotModified ==
    /\ BetweenRuns
    /\ db_runs < MaxSyncRuns
    /\ NotModified(stored_validators.last_modified, stored_validators.etag)
    /\ db_runs' = db_runs + 1
    /\ db_pc' = "up_to_date"
    /\ UNCHANGED <<resolver_vars, version_vars, parse_vars, main_vars, de_vars, srcinfo_vars,
                   db_directory, db_server, db_download, db_ignored>>

\* download_database starts, and maybe_download returns the archive of the
\* server, with the headers the reply has (a server may send the archive
\* whatever the request asked for).
MaybeDownloadSome ==
    /\ BetweenRuns
    /\ db_runs < MaxSyncRuns
    /\ db_runs' = db_runs + 1
    /\ \E last_modified \in {None, Some(db_server)}, etag \in {None, Some(db_server)} :
        db_download' = Some([data |-> db_server, last_modified |-> last_modified,
                             etag |-> etag])
    /\ db_pc' = "remove_validators"
    /\ UNCHANGED <<resolver_vars, version_vars, parse_vars, main_vars, de_vars, srcinfo_vars,
                   db_directory, db_server, db_ignored>>

\* The two calls of std::fs::remove_file, whose results are discarded: a
\* file that exists is removed, or the call fails and the file stays.
RemoveValidators ==
    /\ db_pc = "remove_validators"
    /\ \E last_modified_removed \in BOOLEAN, etag_removed \in BOOLEAN :
        /\ db_directory' =
            [db_directory EXCEPT
                !.last_modified = IF last_modified_removed THEN None ELSE @,
                !.etag = IF etag_removed THEN None ELSE @]
        /\ db_ignored' = (db_ignored
                            \/ (db_directory.last_modified.some /\ ~last_modified_removed)
                            \/ (db_directory.etag.some /\ ~etag_removed))
    /\ db_pc' = "remove_dir_all"
    /\ UNCHANGED <<resolver_vars, version_vars, parse_vars, main_vars, de_vars, srcinfo_vars,
                   db_server, db_download, db_runs>>

\* extract_archive, remove_dir_all: the directory is gone afterwards (or was
\* not there), or std::fs::remove_dir_all fails after it removed some of the
\* entries, and extract_archive returns the error.
RemoveDirAll ==
    /\ db_pc = "remove_dir_all"
    /\ \/ /\ db_directory' = NoDirectory
          /\ db_pc' = "make_dirs"
       \/ /\ db_directory.exists
          /\ \E content_left \in BOOLEAN, last_modified_left \in BOOLEAN, etag_left \in BOOLEAN :
                db_directory' =
                    [db_directory EXCEPT
                        !.complete = @ /\ content_left,
                        !.last_modified = IF last_modified_left THEN @ ELSE None,
                        !.etag = IF etag_left THEN @ ELSE None]
          /\ db_pc' = "failed"
    /\ UNCHANGED <<resolver_vars, version_vars, parse_vars, main_vars, de_vars, srcinfo_vars,
                   db_server, db_download, db_runs, db_ignored>>

\* extract_archive, make_dirs: the empty directory is created, or
\* create_dir_all fails and extract_archive returns the error.
MakeDirs ==
    /\ db_pc = "make_dirs"
    /\ \/ /\ db_directory' = [NoDirectory EXCEPT !.exists = TRUE]
          /\ db_pc' = "bsdtar"
       \/ /\ db_pc' = "failed"
          /\ UNCHANGED db_directory
    /\ UNCHANGED <<resolver_vars, version_vars, parse_vars, main_vars, de_vars, srcinfo_vars,
                   db_server, db_download, db_runs, db_ignored>>

\* extract_archive, bsdtar: it extracts the whole archive and exits with
\* success; or it cannot be started; or writing to it, waiting for it or its
\* exit status fails, when it may have extracted a part of the archive.
Bsdtar ==
    /\ db_pc = "bsdtar"
    /\ \/ /\ db_directory' = [db_directory EXCEPT !.archive = db_download.value.data,
                                                  !.complete = TRUE]
          /\ db_pc' = "write_validators"
       \/ /\ db_pc' = "failed"
          /\ UNCHANGED db_directory
       \/ /\ db_directory' = [db_directory EXCEPT !.archive = db_download.value.data,
                                                  !.complete = FALSE]
          /\ db_pc' = "failed"
    /\ UNCHANGED <<resolver_vars, version_vars, parse_vars, main_vars, de_vars, srcinfo_vars,
                   db_server, db_download, db_runs, db_ignored>>

\* The two calls of std::fs::write for the validators the reply had; their
\* results are discarded.
WriteValidators ==
    /\ db_pc = "write_validators"
    /\ \E last_modified_written \in BOOLEAN, etag_written \in BOOLEAN :
        db_directory' =
            [db_directory EXCEPT
                !.last_modified = IF db_download.value.last_modified.some /\ last_modified_written
                                  THEN db_download.value.last_modified ELSE @,
                !.etag = IF db_download.value.etag.some /\ etag_written
                         THEN db_download.value.etag ELSE @]
    /\ db_pc' = "done"
    /\ UNCHANGED <<resolver_vars, version_vars, parse_vars, main_vars, de_vars, srcinfo_vars,
                   db_server, db_download, db_runs, db_ignored>>

\* The program is interrupted in the middle of download_database.
Interrupted ==
    /\ ~BetweenRuns
    /\ db_pc' = "killed"
    /\ UNCHANGED <<resolver_vars, version_vars, parse_vars, main_vars, de_vars, srcinfo_vars,
                   db_directory, db_server, db_download, db_runs, db_ignored>>

\* The server gets a new archive.
ServerPublishes ==
    /\ db_server < MaxArchives
    /\ db_server' = db_server + 1
    /\ UNCHANGED <<resolver_vars, version_vars, parse_vars, main_vars, de_vars, srcinfo_vars,
                   db_directory, db_pc, db_download, db_runs, db_ignored>>

NextSync ==
    \/ MaybeDownloadFails
    \/ MaybeDownloadNotModified
    \/ MaybeDownloadSome
    \/ RemoveValidators
    \/ RemoveDirAll
    \/ MakeDirs
    \/ Bsdtar
    \/ WriteValidators
    \/ Interrupted
    \/ ServerPublishes

SpecSync == InitSync /\ [][NextSync]_vars

\* The directory holds the completely extracted archive the validator came
\* with.
HoldsArchiveOf(validator) ==
    validator.some =>
        /\ db_directory.exists
        /\ db_directory.complete
        /\ db_directory.archive = validator.value

\* C30: whatever step of download_database succeeds or fails, the files
\* `etag` and `last-modified` exist in a database directory only if the
\* directory holds the completely extracted archive those validators were
\* received with, so that a run which skips the download on a 304 reply
\* finds a complete database.
C30_ValidatorsOnlyWithArchive ==
    /\ HoldsArchiveOf(db_directory.etag)
    /\ HoldsArchiveOf(db_directory.last_modified)
    /\ db_pc = "up_to_date" => db_directory.exists /\ db_directory.complete

\* The same as long as no remove_file of a validator failed, where it holds.
ValidatorsOnlyWithArchiveIfRemoved ==
    ~db_ignored => C30_ValidatorsOnlyWithArchive

\* A run skipped the download although the directory does not hold a
\* complete archive.
SkippedOnIncomplete == db_pc = "up_to_date" /\ ~db_directory.complete

====
